---- MODULE Spec2Model ----
(***************************************************************************)
(* A model of aitril's agent coordination and tool-execution engine:       *)
(*   - AiTril.__init__, ask_tri, ask_single,                               *)
(*     _ask_with_planner, _ask_parallel           (orchestrator.py)        *)
(*   - Provider.__init__, create_provider         (providers.py)           *)
(*   - SessionCache: load, save, add_to_history,                           *)
(*     get_history                                (cache.py)               *)
(*   - AgentCoordinator.coordinate_*              (coordinator.py)         *)
(*   - the tool-calling loops of the adapters     (providers.py)           *)
(*   - ToolRegistry, get_tool_registry,                                    *)
(*     ShellTool.execute                          (tools.py)               *)
(*   - handle_tri, stream_provider_response       (web.py)                 *)
(*                                                                         *)
(* Python str values are TLA+ strings: an f-string is the concatenation    *)
(* (\o) of its literal pieces and its fields, s[:n] is SubSeq(s, 1, n),    *)
(* len is Len.  A Python dict is the sequence of its <<key, value>> items  *)
(* in insertion order, with no key twice.                                  *)
(***************************************************************************)
EXTENDS Integers, Sequences, FiniteSets, TLC

VARIABLES
    providers,   \* keys of self.providers, in insertion order
    prompt,      \* the prompt argument of the entry point
    order,       \* provider_order argument of coordinate_sequential (NoOrder: None)
    strategy,    \* which entry point this run executes
    initial_planner, \* initial_planner argument of ask_tri
    cache,       \* self.cache, the session's history store (NoCache: None)
    cache_file,  \* content of the cache file: the session's history on disk
    pc,          \* position of the entry point's coroutine
    calls,       \* every provider.ask call so far, in start order
    tasks,       \* the coroutines handed to the asyncio.gather being awaited
    locals,      \* local variables of the running strategy
    frames,      \* callers waiting for the running strategy (code-build phases)
    result,      \* value returned by the entry point
    error,       \* exception raised out of the entry point
    loop,        \* one run of an adapter's tool-calling loop
    _global_registry \* tools.py:408, the module's registry (NoRegistry: None)

coordVars == <<providers, prompt, order, strategy, initial_planner, cache,
               cache_file, pc, calls, tasks, locals, frames, result, error>>
vars == <<providers, prompt, order, strategy, initial_planner, cache,
          cache_file, pc, calls, tasks, locals, frames, result, error, loop,
          _global_registry>>

---------------------------------------------------------------------------
(* Bounds of the model *)

\* at most this many providers are enabled
MaxAgents == 3
\* at most this many names in an explicit provider_order
MaxOrderLen == 2

\* names a configuration can enable (orchestrator.py:33)
AgentNames == <<"openai", "anthropic", "gemini", "ollama", "llamacpp",
                "custom1", "custom2", "custom3">>
Min(a, b) == IF a < b THEN a ELSE b
Agents == {AgentNames[i] : i \in 1..Min(MaxAgents, Len(AgentNames))}

---------------------------------------------------------------------------
(* Python strings *)

\* s[:n]
Slice(s, n) == SubSeq(s, 1, Min(n, Len(s)))

\* p in s (a place is compared in full only where the first character fits)
Contains(s, p) ==
    IF p = "" THEN TRUE
    ELSE \E i \in 1..(Len(s) - Len(p) + 1) :
           /\ SubSeq(s, i, i) = SubSeq(p, 1, 1)
           /\ SubSeq(s, i, i + Len(p) - 1) = p

\* s.startswith(p)
StartsWith(s, p) == Len(p) <= Len(s) /\ SubSeq(s, 1, Len(p)) = p

\* sep.join(parts)
RECURSIVE Join(_, _)
Join(sep, parts) ==
    IF parts = <<>> THEN ""
    ELSE IF Len(parts) = 1 THEN parts[1]
    ELSE parts[1] \o sep \o Join(sep, Tail(parts))

---------------------------------------------------------------------------
(* Python dicts: sequences of <<key, value>> items in insertion order *)

Keys(d) == [i \in 1..Len(d) |-> d[i][1]]
KeySet(d) == {d[i][1] : i \in 1..Len(d)}
HasKey(d, k) == k \in KeySet(d)
Get(d, k) == d[CHOOSE i \in 1..Len(d) : d[i][1] = k][2]

\* d[k] = v
Put(d, k, v) ==
    IF HasKey(d, k)
    THEN [i \in 1..Len(d) |-> IF d[i][1] = k THEN <<k, v>> ELSE d[i]]
    ELSE Append(d, <<k, v>>)

\* dict(pairs)
RECURSIVE DictOf(_)
DictOf(pairs) ==
    IF pairs = <<>> THEN <<>>
    ELSE Put(DictOf(SubSeq(pairs, 1, Len(pairs) - 1)),
             pairs[Len(pairs)][1], pairs[Len(pairs)][2])

\* dict(zip(keys, values))
Zip(keys, values) ==
    DictOf([i \in 1..Min(Len(keys), Len(values)) |-> <<keys[i], values[i]>>])

Range(s) == {s[i] : i \in 1..Len(s)}
NoDup(s) == \A i, j \in 1..Len(s) : s[i] = s[j] => i = j

---------------------------------------------------------------------------
(* What a provider can do with a call.  Provider.ask is abstract           *)
(* (providers.py:104): it returns a str or raises.  The replies drawn here *)
(* carry the agent's name, so that one agent's text is never another's.    *)

\* coordinator.py:61 and coordinator.py:365: the length a quoted response is cut to
ContextLimit == 500
\* at most this many replies of ContextLimit characters or more in one run
MaxLong == 2

X1 == "x"
X2 == X1 \o X1
X4 == X2 \o X2
X8 == X4 \o X4
X16 == X8 \o X8
X32 == X16 \o X16
X64 == X32 \o X32
X128 == X64 \o X64
X256 == X128 \o X128
X512 == X256 \o X256

ShortReply(a) == "answer of " \o a
\* exactly ContextLimit characters
ExactReply(a) == a \o ":" \o SubSeq(X512, 1, ContextLimit - Len(a) - 1)
\* ContextLimit + 2 characters, the last two unlike the rest
LongReply(a) == ExactReply(a) \o "yz"
ErrorText(a) == a \o " timed out"

Returned(text) == [raised |-> FALSE, value |-> text]
Raised(msg) == [raised |-> TRUE, value |-> msg]

LongCount == Cardinality({i \in 1..Len(calls) : Len(calls[i].value) >= ContextLimit})

Outcomes(a) ==
    {Returned(ShortReply(a)), Raised(ErrorText(a))}
    \cup (IF LongCount < MaxLong
          THEN {Returned(ExactReply(a)), Returned(LongReply(a))} ELSE {})

\* a provider.ask(p) call of agent a begins
Call(a, p) == [agent |-> a, prompt |-> p, st |-> "inflight", value |-> ""]
\* the call with index c ends with outcome o
Ended(c, o) ==
    [calls EXCEPT ![c].st = IF o.raised THEN "raised" ELSE "returned",
                  ![c].value = o.value]

NoTasks == <<>>
NoLocals == [proc |-> "none"]
NoResult == [kind |-> "none"]
NoError == ""
NoOrder == <<"<None>">>
NoLoop == [pc |-> "off"]
NoCache == [enabled |-> FALSE]
\* the cache file is missing or holds no entry of the session: _load_cache
\* and get_session_data then start from an empty history (cache.py:172-176,
\* 213-219)
NoFile == <<>>
\* cache.py:159-188, SessionCache(session_name): self.data is what _load_cache
\* reads from the file at construction; of the file only the history of the
\* session is kept
SessionCache(file) == [enabled |-> TRUE, history |-> file, ops |-> <<>>]
\* cache.py:190-203, _save_cache: the whole of self.data replaces the content
\* of the file
_save_cache(c) == c.history
NoRegistry == [id |-> 0, tools |-> <<>>]

\* tools.py:344-362, ToolRegistry(): a new registry object (id stands for the
\* object's identity) holding the default tools under their names; a tool is
\* written as the name and the required parameters of its schema
\* (tools.py:60-77, 122-140, 186-212, 271-301)
ToolRegistry(id) ==
    [id |-> id,
     tools |-> << <<"execute_shell_command",
                    [name |-> "execute_shell_command", required |-> <<"command">>]>>,
                  <<"get_system_info",
                    [name |-> "get_system_info", required |-> <<"info_type">>]>>,
                  <<"file_operation",
                    [name |-> "file_operation", required |-> <<"operation", "path">>]>>,
                  <<"http_request",
                    [name |-> "http_request", required |-> <<"url", "method">>]>> >>]

\* tools.py:411-416: the registry get_tool_registry() leaves in
\* _global_registry and returns (mutant: a new registry on every call)
GetToolRegistryAlwaysNew(registry) == ToolRegistry(registry.id + 1)

get_tool_registry(registry) ==
    IF registry = NoRegistry THEN ToolRegistry(1) ELSE registry

\* an exception leaves the running coroutine: no strategy and no entry point has
\* a handler around its awaits, so it leaves the entry point
Propagate(msg) ==
    /\ pc' = "raised"
    /\ error' = msg
    /\ frames' = <<>>
    /\ locals' = NoLocals
    /\ result' = NoResult

---------------------------------------------------------------------------
(* asyncio.gather over a list of coroutines: they start in list order, each *)
(* runs                                                                    *)
(* to its provider.ask, the calls end in any order.  gather returns the    *)
(* list of the coroutines' values in list order once all have returned;    *)
(* the first exception that leaves a coroutine leaves gather at once and   *)
(* the other coroutines go on running.                                     *)

Task(kind, a, p) ==
    [kind |-> kind, agent |-> a, prompt |-> p, call |-> 0, done |-> FALSE,
     value |-> ""]

\* the coroutine of task i runs up to its await of provider.ask
TaskStart(i) ==
    /\ i \in 1..Len(tasks)
    /\ tasks[i].call = 0
    /\ \A j \in 1..(i - 1) : tasks[j].call # 0
    /\ calls' = Append(calls, Call(tasks[i].agent, tasks[i].prompt))
    /\ tasks' = [tasks EXCEPT ![i].call = Len(calls) + 1]
    /\ UNCHANGED <<_global_registry, providers, prompt, order, strategy, initial_planner, cache, cache_file,
                   pc, locals, frames,
                   result, error, loop>>

\* orchestrator.py:242-248, _query_provider after its await: what the coroutine
\* does with the outcome o of provider.ask
\* (mutants: the handler missing; the error tag missing)
QueryProviderDropsHandler(name, o) ==
    IF o.raised THEN Raised(o.value) ELSE Returned(<<name, o.value>>)

QueryProviderNoTag(name, o) ==
    IF o.raised THEN Returned(<<name, o.value>>) ELSE Returned(<<name, o.value>>)

_query_provider(name, o) ==
    IF o.raised
    THEN Returned(<<name, "ERROR: " \o o.value>>)
    ELSE Returned(<<name, o.value>>)

\* orchestrator.py:212-216, _query_builder after its await
_query_builder(name, o) ==
    IF o.raised
    THEN Returned(<<name, "ERROR: " \o o.value>>)
    ELSE Returned(<<name, o.value>>)

\* coordinator.py:97-100: the coroutine is provider.ask(prompt) itself
BareAsk(name, o) == o

TaskOutcome(t, o) ==
    IF t.kind = "query" THEN _query_provider(t.agent, o)
    ELSE IF t.kind = "builder" THEN _query_builder(t.agent, o)
    ELSE BareAsk(t.agent, o)

\* the call of task i ends and its coroutine finishes
TaskFinish(i) ==
    /\ i \in 1..Len(tasks)
    /\ tasks[i].call # 0
    /\ ~tasks[i].done
    /\ \E o \in Outcomes(tasks[i].agent) :
         LET out == TaskOutcome(tasks[i], o) IN
         /\ calls' = Ended(tasks[i].call, o)
         /\ IF out.raised
            THEN /\ tasks' = [tasks EXCEPT ![i].done = TRUE]
                 /\ IF pc = "gather"
                    THEN Propagate(out.value)
                    ELSE UNCHANGED <<pc, error, frames, locals, result>>
            ELSE /\ tasks' = [tasks EXCEPT ![i].done = TRUE, ![i].value = out.value]
                 /\ UNCHANGED <<pc, error, frames, locals, result>>
    /\ UNCHANGED <<_global_registry, providers, prompt, order, strategy, initial_planner, cache, cache_file,
                   loop>>

Gathered == pc = "gather" /\ \A i \in 1..Len(tasks) : tasks[i].done
GatherResults == [i \in 1..Len(tasks) |-> tasks[i].value]

---------------------------------------------------------------------------
(* AgentCoordinator, coordinator.py.  A strategy that returns hands its     *)
(* value to its caller: to the entry point's caller when frames is empty,  *)
(* else to coordinate_code_build, whose frame waits in frames.             *)

\* coordinator.py:47-48: the locals of coordinate_sequential
SequentialLocals(p, provider_order) ==
    [proc |-> "sequential", prompt |-> p, provider_order |-> provider_order,
     i |-> 1, responses |-> <<>>, context_history |-> <<>>]

\* coordinator.py:97-100: one provider.ask(prompt) coroutine per provider
ConsensusTasks(p) == [i \in 1..Len(providers) |-> Task("bare", providers[i], p)]
\* coordinator.py:78-82
min_agreement == 2
ConsensusLocals(p) ==
    [proc |-> "consensus", prompt |-> p, responses |-> <<>>]

\* "\n".join([f"  - {k}: {v}" for k, v in d.items()]), coordinator.py:322, 326, 352, 381
Bullets(d) == Join("\n", [i \in 1..Len(d) |-> "  - " \o d[i][1] \o ": " \o d[i][2]])

\* coordinator.py:303-331
_build_planning_prompt(task, tech_stack, project_context) ==
    "Task: " \o task \o "\n\n"
    \o "Please provide a detailed implementation plan that includes:\n"
    \o "1. Overall architecture and approach\n"
    \o "2. File structure and organization\n"
    \o "3. Key components and their responsibilities\n"
    \o "4. Dependencies and tools needed\n"
    \o "5. Implementation steps in order\n"
    \o "6. Testing strategy\n"
    \o (IF tech_stack # <<>>
        THEN "\nTech stack preferences:\n" \o Bullets(tech_stack) \o "\n" ELSE "")
    \o (IF project_context # <<>>
        THEN "\nProject context:\n" \o Bullets(project_context) \o "\n" ELSE "")
    \o "\nProvide a clear, actionable plan that can be implemented step by step."

\* coordinator.py:333-355
_build_implementation_prompt(task, plan, tech_stack, project_context) ==
    "Task: " \o task \o "\n\n"
    \o "Implementation Plan:\n" \o plan \o "\n\n"
    \o "Please implement the code following the plan above. Provide:\n"
    \o "1. Complete, working code\n"
    \o "2. Clear comments explaining key sections\n"
    \o "3. File paths where code should be placed\n"
    \o "4. Any configuration or setup needed\n"
    \o (IF tech_stack # <<>> THEN "\nTech stack:\n" \o Bullets(tech_stack) \o "\n" ELSE "")

\* coordinator.py:364-367 (mutant: the code is never cut)
ImplSummaryWhole(provider, code) ==
    "From " \o provider \o ":\n" \o code

\* coordinator.py:364-367
ImplSummary(provider, code) ==
    IF Len(code) > ContextLimit
    THEN "From " \o provider \o ":\n" \o Slice(code, ContextLimit) \o "..."
    ELSE "From " \o provider \o ":\n" \o code

\* coordinator.py:357-384
_build_review_prompt(task, implementation, tech_stack) ==
    "Task: " \o task \o "\n\n"
    \o "Implementation:\n"
    \o Join("\n\n", [i \in 1..Len(implementation) |->
                       ImplSummary(implementation[i][1], implementation[i][2])])
    \o "\n\n"
    \o "Please review the implementation and provide:\n"
    \o "1. Assessment of correctness and completeness\n"
    \o "2. Code quality evaluation\n"
    \o "3. Potential issues or improvements\n"
    \o "4. Testing recommendations\n"
    \o "5. Final verdict: Ready to deploy / Needs revisions\n"
    \o (IF tech_stack # <<>> THEN "\nTech stack:\n" \o Bullets(tech_stack) \o "\n" ELSE "")

\* cache.py:223-237, SessionCache.add_to_history (mutant: the entry appended
\* twice); the entry's timestamp is left out
AddToHistoryTwice(c, p, responses) ==
    [c EXCEPT !.history = @ \o << [prompt |-> p, responses |-> responses],
                                  [prompt |-> p, responses |-> responses] >>,
              !.ops = @ \o <<"add_to_history", "add_to_history">>]

add_to_history(c, p, responses) ==
    [c EXCEPT !.history = Append(@, [prompt |-> p, responses |-> responses]),
              !.ops = Append(@, "add_to_history")]

\* orchestrator.py:141-147
SaveToCache(c, p, responses) ==
    IF c.enabled THEN add_to_history(c, p, responses) ELSE c

\* a strategy returns value (return ..., coordinator.py:76, 112, 178): the
\* entry point returns it, or coordinate_code_build goes on with its next phase
\* (coordinator.py:238-266)
Return(value) ==
    IF frames = <<>>
    THEN /\ pc' = "returned"
         /\ result' = value
         /\ locals' = NoLocals
         /\ tasks' = NoTasks
         /\ frames' = frames
         /\ UNCHANGED <<cache, cache_file>>
    ELSE IF frames[1].proc = "ask_tri"
    THEN /\ pc' = "returned"
         /\ result' = value
         /\ locals' = NoLocals
         /\ tasks' = NoTasks
         /\ frames' = <<>>
         /\ cache' = SaveToCache(cache, prompt, value)
         /\ cache_file' = (IF cache.enabled THEN _save_cache(cache') ELSE cache_file)
    ELSE LET f == frames[1] IN
         /\ UNCHANGED <<cache, cache_file>>
         /\ IF f.phase = "planning"
            THEN /\ pc' = "seq_loop"
                 /\ locals' = SequentialLocals(
                                  _build_implementation_prompt(
                                      f.task, value.consensus, f.tech_stack,
                                      f.project_context),
                                  providers)
                 /\ frames' = <<[f EXCEPT !.phase = "implementation",
                                          !.planning = value]>>
                 /\ tasks' = NoTasks
                 /\ result' = result
            ELSE IF f.phase = "implementation"
            THEN LET review_prompt ==
                        _build_review_prompt(f.task, value.responses, f.tech_stack)
                 IN /\ pc' = "gather"
                    /\ locals' = ConsensusLocals(review_prompt)
                    /\ tasks' = ConsensusTasks(review_prompt)
                    /\ frames' = <<[f EXCEPT !.phase = "review",
                                             !.implementation = value]>>
                    /\ result' = result
            ELSE /\ pc' = "returned"
                 /\ result' = [kind |-> "code_build", task |-> f.task,
                               tech_stack |-> f.tech_stack,
                               planning |-> f.planning,
                               implementation |-> f.implementation.responses,
                               review |-> value, status |-> "completed"]
                 /\ locals' = NoLocals
                 /\ tasks' = NoTasks
                 /\ frames' = <<>>

---------------------------------------------------------------------------
(* AiTril._ask_parallel, orchestrator.py:232-259 *)

\* orchestrator.py:251-256: one _query_provider coroutine per provider
ParallelTasks(p) == [i \in 1..Len(providers) |-> Task("query", providers[i], p)]
ParallelLocals == [proc |-> "_ask_parallel"]

AskParallel ==
    /\ strategy = "parallel"
    /\ pc = "start"
    /\ tasks' = ParallelTasks(prompt)
    /\ pc' = "gather"
    /\ locals' = ParallelLocals
    /\ UNCHANGED <<_global_registry, providers, prompt, order, strategy, initial_planner, cache, cache_file,
                   calls, frames, result,
                   error, loop>>

\* orchestrator.py:256-259: gather returns, dict(results) is returned
AskParallelReturn ==
    /\ Gathered
    /\ locals.proc = "_ask_parallel"
    /\ Return([kind |-> "parallel", responses |-> DictOf(GatherResults)])
    /\ UNCHANGED <<_global_registry, providers, prompt, order, strategy, initial_planner,
                   calls, error, loop>>

\* the enabled providers: the first k names, 1 <= k <= MaxAgents (names are
\* interchangeable: no strategy treats one name unlike another)
Enabled == {SubSeq(AgentNames, 1, k) : k \in 1..Min(MaxAgents, Len(AgentNames))}
Prompts == {"What is 2+2?"}

InitCommon ==
    /\ _global_registry = get_tool_registry(NoRegistry)
    /\ providers \in Enabled
    /\ prompt \in Prompts
    /\ initial_planner = "none"
    /\ cache = NoCache
    /\ cache_file = NoFile
    /\ pc = "start"
    /\ calls = <<>>
    /\ tasks = NoTasks
    /\ locals = NoLocals
    /\ frames = <<>>
    /\ result = NoResult
    /\ error = NoError
    /\ loop = NoLoop

InitParallel ==
    /\ InitCommon
    /\ strategy = "parallel"
    /\ order = NoOrder

NextParallel ==
    \/ AskParallel
    \/ \E i \in 1..MaxAgents : TaskStart(i)
    \/ \E i \in 1..MaxAgents : TaskFinish(i)
    \/ AskParallelReturn

SpecParallel == InitParallel /\ [][NextParallel]_vars

\* the caller cancels the request while _ask_parallel awaits gather
\* (orchestrator.py:256): gather cancels its coroutines, those at their
\* await of provider.ask get CancelledError, which is not an Exception and
\* passes the handler of _query_provider (orchestrator.py:244-248); those not
\* yet started never run; CancelledError leaves gather and _ask_parallel
Cancel ==
    /\ pc = "gather"
    /\ locals.proc = "_ask_parallel"
    /\ frames = <<>>
    /\ calls' = [c \in 1..Len(calls) |->
                   IF calls[c].st = "inflight"
                   THEN [calls[c] EXCEPT !.st = "cancelled"] ELSE calls[c]]
    /\ tasks' = NoTasks
    /\ pc' = "cancelled"
    /\ error' = "CancelledError"
    /\ result' = NoResult
    /\ locals' = NoLocals
    /\ UNCHANGED <<_global_registry, providers, prompt, order, strategy, initial_planner, cache, cache_file,
                   frames, loop>>

NextCancel ==
    \/ NextParallel
    \/ Cancel

SpecCancel == InitParallel /\ [][NextCancel]_vars

\* C19 as the specification states it: when a Parallel request is cancelled
\* after some calls ended and while others were in flight, the caller still
\* gets a result that holds the response of every call that had ended.
C19_AsClaimed ==
    (/\ pc = "cancelled"
     /\ \E c \in 1..Len(calls) : calls[c].st \in {"returned", "raised"}
     /\ \E c \in 1..Len(calls) : calls[c].st = "cancelled")
      => /\ result.kind = "parallel"
         /\ \A c \in 1..Len(calls) :
              calls[c].st \in {"returned", "raised"}
                => HasKey(result.responses, calls[c].agent)

---------------------------------------------------------------------------
(* Claims about the fan-out, under SpecParallel *)

\* C1: for every set of enabled agents and every combination of outcomes
\* (text or exception), _ask_parallel does return, and the map it returns has
\* exactly one entry per enabled agent: no agent omitted, no key twice, no
\* other key.
C1_OneEntryPerAgent ==
    strategy = "parallel" =>
      /\ pc # "raised"
      /\ (pc = "returned" =>
            /\ result.kind = "parallel"
            /\ NoDup(Keys(result.responses))
            /\ Len(result.responses) = Len(providers)
            /\ KeySet(result.responses) = Range(providers))

\* C1 happens: a fan-out over three agents returned although a call raised
C1_Witness ==
    /\ strategy = "parallel"
    /\ pc = "returned"
    /\ Len(providers) = 3
    /\ \E c \in 1..Len(calls) : calls[c].st = "raised"

\* C2: a raising agent never keeps the others' results from being returned:
\* once the fan-out returned, the entry of an agent whose ask raised is
\* "ERROR: " followed by the exception's text, and the entry of every other
\* agent is exactly the text its ask returned, in whatever order the calls
\* ended.
C2_FailureIsolated ==
    strategy = "parallel" =>
      /\ pc # "raised"
      /\ (pc = "returned" =>
            \A c \in 1..Len(calls) :
              /\ HasKey(result.responses, calls[c].agent)
              /\ calls[c].st \in {"raised", "returned"}
              /\ calls[c].st = "raised" =>
                   /\ StartsWith(Get(result.responses, calls[c].agent), "ERROR: ")
                   /\ Get(result.responses, calls[c].agent)
                        = "ERROR: " \o calls[c].value
              /\ calls[c].st = "returned" =>
                   Get(result.responses, calls[c].agent) = calls[c].value)

\* C2 happens: of three agents the second one raised and the other two
\* returned, and the fan-out returned the text of both
C2_Witness ==
    /\ strategy = "parallel"
    /\ pc = "returned"
    /\ Len(calls) = 3
    /\ calls[1].st = "returned"
    /\ calls[2].st = "raised"
    /\ calls[3].st = "returned"
    /\ Get(result.responses, calls[1].agent) = calls[1].value
    /\ Get(result.responses, calls[3].agent) = calls[3].value

---------------------------------------------------------------------------
(* AgentCoordinator.coordinate_sequential, coordinator.py:26-76 *)

\* coordinator.py:61-62 (mutants: no cut; the newest entry only)
ContextEntry(name, resp) ==
    IF Len(resp) > ContextLimit
    THEN "[Context from " \o name \o "]: " \o Slice(resp, ContextLimit) \o "..."
    ELSE "[Context from " \o name \o "]: " \o resp

EnrichedPromptNewestOnly(p, context_history) ==
    IF context_history = <<>> THEN p
    ELSE p \o "\n\n"
         \o "Previous agent responses for context:\n"
         \o ContextEntry(context_history[Len(context_history)][1],
                         context_history[Len(context_history)][2])
         \o "\n\n"
         \o "Please provide your response, building on or complementing the above if relevant."

\* coordinator.py:57-69
EnrichedPrompt(p, context_history) ==
    IF context_history = <<>> THEN p
    ELSE p \o "\n\n"
         \o "Previous agent responses for context:\n"
         \o Join("\n\n", [k \in 1..Len(context_history) |->
                           ContextEntry(context_history[k][1], context_history[k][2])])
         \o "\n\n"
         \o "Please provide your response, building on or complementing the above if relevant."

\* coordinator.py:44-48 (mutant: provider_order is not looked at)
CoordinateSequentialDefaultOrder ==
    /\ strategy = "sequential"
    /\ pc = "start"
    /\ pc' = "seq_loop"
    /\ locals' = SequentialLocals(prompt, providers)
    /\ UNCHANGED <<_global_registry, providers, prompt, order, strategy, initial_planner, cache, cache_file,
                   calls, tasks, frames,
                   result, error, loop>>

CoordinateSequential ==
    /\ strategy = "sequential"
    /\ pc = "start"
    /\ pc' = "seq_loop"
    /\ locals' = SequentialLocals(prompt, IF order = NoOrder THEN providers ELSE order)
    /\ UNCHANGED <<_global_registry, providers, prompt, order, strategy, initial_planner, cache, cache_file,
                   calls, tasks, frames,
                   result, error, loop>>

\* coordinator.py:50-52: a name that is no provider is passed over
SequentialSkip ==
    /\ pc = "seq_loop"
    /\ locals.i <= Len(locals.provider_order)
    /\ locals.provider_order[locals.i] \notin Range(providers)
    /\ locals' = [locals EXCEPT !.i = @ + 1]
    /\ UNCHANGED <<_global_registry, providers, prompt, order, strategy, initial_planner, cache, cache_file,
                   pc, calls, tasks, frames,
                   result, error, loop>>

\* coordinator.py:54-72: the next provider is asked
SequentialAsk ==
    /\ pc = "seq_loop"
    /\ locals.i <= Len(locals.provider_order)
    /\ locals.provider_order[locals.i] \in Range(providers)
    /\ calls' = Append(calls, Call(locals.provider_order[locals.i],
                                   EnrichedPrompt(locals.prompt, locals.context_history)))
    /\ pc' = "seq_await"
    /\ UNCHANGED <<_global_registry, providers, prompt, order, strategy, initial_planner, cache, cache_file,
                   tasks, locals, frames,
                   result, error, loop>>

\* coordinator.py:72-74: provider.ask returns or raises
SequentialAnswer ==
    /\ pc = "seq_await"
    /\ LET name == locals.provider_order[locals.i] IN
       \E o \in Outcomes(name) :
         /\ calls' = Ended(Len(calls), o)
         /\ IF o.raised
            THEN Propagate(o.value)
            ELSE /\ locals' = [locals EXCEPT
                                 !.responses = Put(@, name, o.value),
                                 !.context_history = Append(@, <<name, o.value>>),
                                 !.i = @ + 1]
                 /\ pc' = "seq_loop"
                 /\ UNCHANGED <<frames, result, error>>
    /\ UNCHANGED <<_global_registry, providers, prompt, order, strategy, initial_planner, cache, cache_file,
                   tasks, loop>>

\* coordinator.py:76
SequentialReturn ==
    /\ pc = "seq_loop"
    /\ locals.i > Len(locals.provider_order)
    /\ Return([kind |-> "sequential", responses |-> locals.responses])
    /\ UNCHANGED <<_global_registry, providers, prompt, order, strategy, initial_planner,
                   calls, error, loop>>

Orders ==
    {NoOrder} \cup UNION {[1..n -> Agents] : n \in 0..MaxOrderLen}

InitSequential ==
    /\ InitCommon
    /\ strategy = "sequential"
    /\ order \in Orders

NextSequential ==
    \/ CoordinateSequential
    \/ SequentialSkip
    \/ SequentialAsk
    \/ SequentialAnswer
    \/ SequentialReturn

SpecSequential == InitSequential /\ [][NextSequential]_vars

\* C30: in the Sequential strategy at most one call is in flight, and it is
\* the latest: every call before it has returned; the calls go, in order, to
\* the names of provider_order (of the providers, when no order is given)
\* that are enabled providers; a name that is not enabled gets no call and,
\* when the run returns, no entry in the result, and every name called has
\* its entry.
C30_OneAtATime ==
    strategy = "sequential" =>
      LET given == IF order = NoOrder THEN providers ELSE order
          enabled == {providers[k] : k \in 1..Len(providers)}
          Called == {k \in 1..Len(given) : given[k] \in enabled}
          Position(c) == CHOOSE k \in Called :
                           Cardinality({h \in Called : h <= k}) = c
      IN /\ Cardinality({c \in 1..Len(calls) : calls[c].st = "inflight"}) <= 1
         /\ \A c \in 1..Len(calls) : c < Len(calls) => calls[c].st = "returned"
         /\ Len(calls) <= Cardinality(Called)
         /\ \A c \in 1..Len(calls) : calls[c].agent = given[Position(c)]
         /\ pc = "returned" =>
              /\ Len(calls) = Cardinality(Called)
              /\ {result.responses[r][1] : r \in 1..Len(result.responses)}
                   = {given[k] : k \in Called}

\* a run with an order of two names has returned: the first name is no
\* enabled provider and was passed over, the second was called
C30_Witness ==
    /\ strategy = "sequential"
    /\ pc = "returned"
    /\ order # NoOrder
    /\ Len(order) = 2
    /\ order[1] \notin {providers[k] : k \in 1..Len(providers)}
    /\ Len(calls) = 1
    /\ calls[1].agent = order[2]
    /\ Len(result.responses) = 1

\* the parts occur in s one after the other, without overlap, from index from on
RECURSIVE ContainsInOrder(_, _, _)
ContainsInOrder(s, parts, from) ==
    \/ parts = <<>>
    \/ \E i \in from..(Len(s) - Len(parts[1]) + 1) :
         /\ SubSeq(s, i, i) = SubSeq(parts[1], 1, 1)
         /\ SubSeq(s, i, i + Len(parts[1]) - 1) = parts[1]
         /\ ContainsInOrder(s, Tail(parts), i + Len(parts[1]))

\* C7: in the Sequential strategy, for every agent order (the default one,
\* orders that repeat an agent, orders naming agents that are not enabled),
\* the first agent called receives exactly the original prompt, and every
\* later agent receives the original prompt followed by a context block with
\* exactly one entry per earlier call, in call order; an entry carries the
\* earlier response cut to its first 500 characters, so a response of at most
\* 500 characters is there in full and a longer one is not.
C7_SequentialContext ==
    strategy = "sequential" =>
      \A c \in 1..Len(calls) :
        LET sent == calls[c].prompt
            rest == SubSeq(sent, Len(prompt) + 1, Len(sent))
            label == "[Context from "
            labels == {i \in 1..(Len(rest) - Len(label) + 1) :
                         SubSeq(rest, i, i + Len(label) - 1) = label}
            Entry(k) == label \o calls[k].agent \o "]: "
                        \o Slice(calls[k].value, ContextLimit)
        IN /\ c = 1 => sent = prompt
           /\ c > 1 =>
                /\ StartsWith(sent, prompt)
                /\ Cardinality(labels) = c - 1
                /\ ContainsInOrder(rest, [k \in 1..(c - 1) |-> Entry(k)], 1)
                /\ \A k \in 1..(c - 1) :
                     /\ calls[k].st = "returned"
                     /\ Len(calls[k].value) <= ContextLimit =>
                          Contains(rest, calls[k].value)
                     /\ Len(calls[k].value) > ContextLimit =>
                          /\ ~Contains(rest, calls[k].value)
                          /\ ~Contains(rest, Slice(calls[k].value, ContextLimit + 1))

\* C7 happens: the third agent of three is called after one answer of more
\* than 500 characters and one of exactly 500
C7_Witness ==
    /\ strategy = "sequential"
    /\ Len(calls) = 3
    /\ Len(calls[1].value) > ContextLimit
    /\ Len(calls[2].value) = ContextLimit
    /\ calls[3].agent \notin {calls[1].agent, calls[2].agent}

\* C12: in a multi-agent strategy that asks its agents one after the other
\* (here Sequential), once the strategy is over and the ask of some agent
\* raised, the strategy has returned all the same: the failure is an
\* error-tagged value in that agent's slot, and every response obtained from
\* another agent is in the returned map.
C12_AsClaimed ==
    (/\ strategy = "sequential"
     /\ pc \in {"returned", "raised"}
     /\ \E c \in 1..Len(calls) : calls[c].st = "raised")
    => /\ pc = "returned"
       /\ \A c \in 1..Len(calls) :
            /\ HasKey(result.responses, calls[c].agent)
            /\ calls[c].st = "raised" =>
                 StartsWith(Get(result.responses, calls[c].agent), "ERROR: ")
            /\ (/\ calls[c].st = "returned"
                /\ \A d \in (c + 1)..Len(calls) : calls[d].agent # calls[c].agent)
               => Get(result.responses, calls[c].agent) = calls[c].value

---------------------------------------------------------------------------
(* AgentCoordinator.coordinate_consensus, coordinator.py:78-119 *)

\* coordinator.py:401-404 (mutant: the responses cut as coordinate_sequential
\* cuts them)
ResponsesTextCut(responses) ==
    Join("\n\n", [i \in 1..Len(responses) |->
                    "Response from " \o responses[i][1] \o ":\n"
                    \o Slice(responses[i][2], ContextLimit)])

ResponsesText(responses) ==
    Join("\n\n", [i \in 1..Len(responses) |->
                    "Response from " \o responses[i][1] \o ":\n" \o responses[i][2]])

\* coordinator.py:386-415
_build_consensus_prompt(original_prompt, responses) ==
    "Original question: " \o original_prompt \o "\n\n"
    \o "Multiple AI agents provided the following responses:\n\n"
    \o ResponsesText(responses) \o "\n\n"
    \o "Please provide a synthesized consensus that:\n"
    \o "1. Identifies common themes and agreements\n"
    \o "2. Notes significant disagreements or different perspectives\n"
    \o "3. Provides a balanced, comprehensive answer\n"
    \o "4. Highlights which aspects have strong agreement vs. debate"

\* coordinator.py:96-102: the coroutines are created and gathered
CoordinateConsensus ==
    /\ strategy = "consensus"
    /\ pc = "start"
    /\ pc' = "gather"
    /\ tasks' = ConsensusTasks(prompt)
    /\ locals' = ConsensusLocals(prompt)
    /\ UNCHANGED <<_global_registry, providers, prompt, order, strategy, initial_planner, cache, cache_file,
                   calls, frames, result,
                   error, loop>>

\* coordinator.py:102-110 (mutant: the last provider is asked for the
\* synthesis)
ConsensusSynthesizeLast ==
    /\ Gathered
    /\ locals.proc = "consensus"
    /\ LET responses == Zip(providers, GatherResults)
           last_provider == providers[Len(providers)]
       IN /\ calls' = Append(calls, Call(last_provider,
                                         _build_consensus_prompt(locals.prompt, responses)))
          /\ locals' = [locals EXCEPT !.responses = responses]
    /\ pc' = "cons_await"
    /\ tasks' = NoTasks
    /\ UNCHANGED <<_global_registry, providers, prompt, order, strategy, initial_planner, cache, cache_file,
                   frames, result, error, loop>>

\* coordinator.py:102-110: gather returned the list of responses; the first
\* provider is asked for the synthesis
ConsensusSynthesize ==
    /\ Gathered
    /\ locals.proc = "consensus"
    /\ LET responses == Zip(providers, GatherResults)
           first_provider == providers[1]
       IN /\ calls' = Append(calls, Call(first_provider,
                                         _build_consensus_prompt(locals.prompt, responses)))
          /\ locals' = [locals EXCEPT !.responses = responses]
    /\ pc' = "cons_await"
    /\ tasks' = NoTasks
    /\ UNCHANGED <<_global_registry, providers, prompt, order, strategy, initial_planner, cache, cache_file,
                   frames, result, error, loop>>

\* coordinator.py:110-119: the synthesis call returns or raises
ConsensusAnswer ==
    /\ pc = "cons_await"
    /\ \E o \in Outcomes(providers[1]) :
         /\ calls' = Ended(Len(calls), o)
         /\ IF o.raised
            THEN /\ Propagate(o.value)
                 /\ UNCHANGED <<tasks, cache, cache_file>>
            ELSE /\ Return([kind |-> "consensus",
                            individual_responses |-> locals.responses,
                            consensus |-> o.value,
                            meta |-> [providers_count |-> Len(locals.responses),
                                      min_agreement |-> min_agreement]])
                 /\ UNCHANGED error
    /\ UNCHANGED <<_global_registry, providers, prompt, order, strategy, initial_planner,
                   loop>>

InitConsensus ==
    /\ InitCommon
    /\ strategy = "consensus"
    /\ order = NoOrder

NextConsensus ==
    \/ CoordinateConsensus
    \/ \E i \in 1..MaxAgents : TaskStart(i)
    \/ \E i \in 1..MaxAgents : TaskFinish(i)
    \/ ConsensusSynthesize
    \/ ConsensusAnswer

SpecConsensus == InitConsensus /\ [][NextConsensus]_vars

\* C8: in the Consensus strategy (whose fan-out makes the first Len(providers)
\* calls, in provider order, the synthesis call being the next one), whenever
\* the synthesis call is made, its
\* prompt contains the whole text each agent returned, however long, and it
\* goes to the first provider; and when the strategy returns, the result has
\* exactly one individual response per enabled agent, each the text that
\* agent returned, together with the text the synthesis call returned.
C8_ConsensusBundlesAll ==
    LET SynthesisCall == Len(providers) + 1 IN
    strategy = "consensus" =>
      /\ Len(calls) >= SynthesisCall =>
           /\ calls[SynthesisCall].agent = providers[1]
           /\ \A c \in 1..Len(providers) :
                /\ calls[c].st = "returned"
                /\ calls[c].agent = providers[c]
                /\ Contains(calls[SynthesisCall].prompt, calls[c].value)
      /\ pc = "returned" =>
           /\ result.kind = "consensus"
           /\ Keys(result.individual_responses) = providers
           /\ \A c \in 1..Len(providers) :
                Get(result.individual_responses, providers[c]) = calls[c].value
           /\ result.consensus = calls[SynthesisCall].value
      /\ Len(calls) <= SynthesisCall

\* C8 happens: three agents, one of which answered more than 500 characters,
\* were synthesized and the bundle was returned
C8_Witness ==
    /\ strategy = "consensus"
    /\ pc = "returned"
    /\ Len(providers) = 3
    /\ \E c \in 1..Len(providers) : Len(calls[c].value) > ContextLimit

\* C11: in the Consensus strategy, once every call has ended and the call of
\* some agent of the fan-out raised, coordinate_consensus has returned all the
\* same: the synthesis call was issued, the entry of an agent whose call
\* raised is an error-tagged value, and the entry of every other agent is the
\* text that agent returned.
C11_AsClaimed ==
    (/\ strategy = "consensus"
     /\ pc \in {"returned", "raised"}
     /\ \A c \in 1..Len(calls) : calls[c].st # "inflight"
     /\ \E c \in 1..Min(Len(calls), Len(providers)) : calls[c].st = "raised")
    => /\ pc = "returned"
       /\ Len(calls) = Len(providers) + 1
       /\ \A c \in 1..Len(providers) :
            /\ HasKey(result.individual_responses, providers[c])
            /\ calls[c].st = "raised" =>
                 StartsWith(Get(result.individual_responses, providers[c]), "ERROR: ")
            /\ calls[c].st = "returned" =>
                 Get(result.individual_responses, providers[c]) = calls[c].value

\* C31: in the Consensus strategy with n agents, the first n calls are the
\* individual calls, one per agent in provider order, each with the raw
\* prompt; an individual call not yet issued can be issued whatever the state
\* of the calls already issued (they run concurrently); a further call is made
\* only once all n individual calls have returned, it goes to the first agent
\* of the provider map, and no call follows it; when the strategy returns,
\* exactly n+1 calls have been made and all have ended.
C31_ConsensusCalls ==
    LET n == Len(providers) IN
    strategy = "consensus" =>
      /\ Len(calls) <= n + 1
      /\ \A c \in 1..Min(Len(calls), n) :
           /\ calls[c].agent = providers[c]
           /\ calls[c].prompt = prompt
      /\ (pc = "gather" /\ Len(calls) < n) => ENABLED TaskStart(Len(calls) + 1)
      /\ Len(calls) = n + 1 =>
           /\ \A c \in 1..n : calls[c].st = "returned"
           /\ calls[n + 1].agent = providers[1]
           /\ calls[n + 1].prompt # prompt
      /\ pc = "returned" =>
           /\ Len(calls) = n + 1
           /\ calls[n + 1].st = "returned"

\* C31 happens: three agents were asked, the synthesis was made and
\* coordinate_consensus returned
C31_Witness ==
    /\ strategy = "consensus"
    /\ pc = "returned"
    /\ Len(providers) = 3
    /\ Len(calls) = 4
    /\ result.kind = "consensus"

---------------------------------------------------------------------------
(* AgentCoordinator.coordinate_debate, coordinator.py:121-178 *)

MaxRounds == 2

\* the items of d whose key is not k, in d's order
RECURSIVE Without(_, _)
Without(d, k) ==
    IF d = <<>> THEN <<>>
    ELSE (IF d[1][1] # k THEN <<d[1]>> ELSE <<>>) \o Without(Tail(d), k)

\* coordinator.py:157-161 (mutant: the filter on the provider's own name missing)
DebateContextUnfiltered(prev_responses, provider_name) ==
    Join("\n\n", [i \in 1..Len(prev_responses) |->
                    "[" \o prev_responses[i][1] \o "'s previous response]: "
                    \o prev_responses[i][2]])

DebateContext(prev_responses, provider_name) ==
    LET others == Without(prev_responses, provider_name)
    IN Join("\n\n", [i \in 1..Len(others) |->
                       "[" \o others[i][1] \o "'s previous response]: " \o others[i][2]])

\* coordinator.py:152-168
DebatePrompt(p, round_num, history, provider_name) ==
    IF round_num > 0
    THEN "Original prompt: " \o p \o "\n\n"
         \o "Other agents' responses:\n"
         \o DebateContext(history[Len(history)].responses, provider_name) \o "\n\n"
         \o "Please " \o (IF round_num > 0 THEN "refine your position"
                                           ELSE "provide your response") \o ", "
         \o "considering the above perspectives."
    ELSE p

\* coordinator.py:139-148: the locals of coordinate_debate
DebateLocals(p, rounds) ==
    [proc |-> "debate", prompt |-> p, rounds |-> rounds, round_num |-> 0,
     j |-> 1, history |-> <<>>, round_responses |-> <<>>]

\* coordinator.py:173-176: the item appended to debate_history["rounds"]
\* (mutant: the round numbered from 0)
RoundEntryFromZero(round_num, round_responses) ==
    [round |-> round_num, responses |-> round_responses]

RoundEntry(round_num, round_responses) ==
    [round |-> round_num + 1, responses |-> round_responses]

\* coordinator.py:139-148
CoordinateDebate ==
    /\ strategy = "debate"
    /\ pc = "start"
    /\ \E rounds \in 0..MaxRounds : locals' = DebateLocals(prompt, rounds)
    /\ pc' = "debate_loop"
    /\ UNCHANGED <<_global_registry, providers, prompt, order, strategy, initial_planner, cache, cache_file,
                   calls, tasks, frames,
                   result, error, loop>>

\* coordinator.py:150-170: the next provider of the round is asked
DebateAsk ==
    /\ pc = "debate_loop"
    /\ locals.round_num < locals.rounds
    /\ calls' = Append(calls, Call(providers[locals.j],
                                   DebatePrompt(locals.prompt, locals.round_num,
                                                locals.history, providers[locals.j])))
    /\ pc' = "debate_await"
    /\ UNCHANGED <<_global_registry, providers, prompt, order, strategy, initial_planner, cache, cache_file,
                   tasks, locals, frames,
                   result, error, loop>>

\* coordinator.py:170-176: provider.ask returns or raises; after the last
\* provider of a round the round is appended to the history
DebateAnswer ==
    /\ pc = "debate_await"
    /\ \E o \in Outcomes(providers[locals.j]) :
         /\ calls' = Ended(Len(calls), o)
         /\ IF o.raised
            THEN Propagate(o.value)
            ELSE LET rr == Put(locals.round_responses, providers[locals.j], o.value) IN
                 /\ locals' =
                      IF locals.j < Len(providers)
                      THEN [locals EXCEPT !.round_responses = rr, !.j = @ + 1]
                      ELSE [locals EXCEPT
                              !.history = Append(@, RoundEntry(locals.round_num, rr)),
                              !.round_responses = <<>>,
                              !.j = 1,
                              !.round_num = @ + 1]
                 /\ pc' = "debate_loop"
                 /\ UNCHANGED <<frames, result, error>>
    /\ UNCHANGED <<_global_registry, providers, prompt, order, strategy, initial_planner, cache, cache_file,
                   tasks, loop>>

\* coordinator.py:178
DebateReturn ==
    /\ pc = "debate_loop"
    /\ locals.round_num = locals.rounds
    /\ Return([kind |-> "debate", prompt |-> locals.prompt, rounds |-> locals.history])
    /\ UNCHANGED <<_global_registry, providers, prompt, order, strategy, initial_planner,
                   calls, error, loop>>

InitDebate ==
    /\ InitCommon
    /\ strategy = "debate"
    /\ order = NoOrder

NextDebate ==
    \/ CoordinateDebate
    \/ DebateAsk
    \/ DebateAnswer
    \/ DebateReturn

SpecDebate == InitDebate /\ [][NextDebate]_vars

\* C20: a debate asked for N rounds that returns, returns a list of exactly N
\* items, the k-th numbered k and holding exactly one response per enabled
\* agent, in the agents' order, which is the response the agent gave in the
\* k-th round; every prompt of the first round is the prompt as it was given.
C20_DebateRounds ==
    [][(strategy = "debate" /\ pc = "debate_loop" /\ pc' = "returned") =>
         LET n == Len(providers)
             N == locals.rounds
         IN /\ result'.kind = "debate"
            /\ Len(result'.rounds) = N
            /\ Len(calls') = N * n
            /\ \A k \in 1..N :
                 /\ result'.rounds[k].round = k
                 /\ Len(result'.rounds[k].responses) = n
                 /\ \A a \in 1..n :
                      /\ result'.rounds[k].responses[a][1] = providers[a]
                      /\ calls'[(k - 1) * n + a].agent = providers[a]
                      /\ calls'[(k - 1) * n + a].st = "returned"
                      /\ result'.rounds[k].responses[a][2]
                           = calls'[(k - 1) * n + a].value
            /\ \A c \in 1..Len(calls') : c <= n => calls'[c].prompt = prompt
      ]_vars

\* a debate of MaxRounds rounds among two agents or more has returned
C20_Witness ==
    /\ strategy = "debate"
    /\ pc = "returned"
    /\ Len(providers) >= 2
    /\ Len(result.rounds) = MaxRounds
    /\ Len(calls) = MaxRounds * Len(providers)

\* C28 as the specification states it: the calls of one debate round are
\* fanned out, none waiting for the end of another call of its round, so
\* when a call of a round has ended every call of that round has been
\* started; and no call of a round is started before every call of the round
\* before it has ended.
C28_AsClaimed ==
    strategy = "debate" =>
      \A c \in 1..Len(calls) :
        LET n == Len(providers)
            k == (c - 1) \div n
        IN /\ calls[c].st # "inflight" => Len(calls) >= (k + 1) * n
           /\ \A d \in 1..(k * n) : calls[d].st # "inflight"

\* C9: in the Debate strategy (whose calls are made one after the other,
\* provider by provider within a round), every prompt of a round k > 0 sent
\* to an agent contains the round k-1 response of every other agent, labelled
\* with that agent's name, and contains neither an entry labelled with the
\* receiving agent's own name nor the text of its own round k-1 response (an
\* agent's text names the agent, so it is no part of another agent's text);
\* the prompts of round 0 are the original prompt.
C9_DebateOthersOnly ==
    LET RoundOf(c) == (c - 1) \div Len(providers)
        SeatOf(c) == ((c - 1) % Len(providers)) + 1
        CallAt(k, seat) == k * Len(providers) + seat
        PreviousEntry(c) ==
            "[" \o calls[c].agent \o "'s previous response]: " \o calls[c].value
    IN
    strategy = "debate" =>
      \A c \in 1..Len(calls) :
        /\ calls[c].agent = providers[SeatOf(c)]
        /\ RoundOf(c) = 0 => calls[c].prompt = prompt
        /\ RoundOf(c) > 0 =>
             \A seat \in 1..Len(providers) :
               LET before == CallAt(RoundOf(c) - 1, seat) IN
               /\ calls[before].st = "returned"
               /\ calls[before].agent = providers[seat]
               /\ seat # SeatOf(c) =>
                    Contains(calls[c].prompt, PreviousEntry(before))
               /\ seat = SeatOf(c) =>
                    /\ ~Contains(calls[c].prompt,
                                 "[" \o calls[c].agent \o "'s previous response]")
                    /\ ~Contains(calls[c].prompt, calls[before].value)

\* C9 happens: with three agents the second agent is asked in the second
\* round (the fifth call), after all three answered the first
C9_Witness ==
    /\ strategy = "debate"
    /\ Len(providers) = 3
    /\ Len(calls) >= 5
    /\ calls[5].agent = providers[2]

---------------------------------------------------------------------------
(* AgentCoordinator.coordinate_specialist, coordinator.py:180-212 *)

\* coordinator.py:201-207 (mutant: roles[provider_name] only where the map
\* has the name, no role otherwise)
RolePromptNoDefault(p, roles, provider_name) ==
    "You are acting as a "
    \o (IF HasKey(roles, provider_name) THEN Get(roles, provider_name) ELSE "")
    \o ". " \o "Approach the following from that specific perspective:\n\n" \o p

RolePrompt(p, roles, provider_name) ==
    LET role == IF HasKey(roles, provider_name) THEN Get(roles, provider_name)
                ELSE "general assistant"
    IN "You are acting as a " \o role \o ". "
       \o "Approach the following from that specific perspective:\n\n" \o p

\* the roles argument: any of the first two agents and a name that is no
\* provider, each with a role of its own
RoleMaps ==
    LET names == <<AgentNames[1], AgentNames[2], "nobody">>
        Pick(keep) == [i \in 1..Len(names) |->
                         IF keep[i] THEN << <<names[i], "expert for " \o names[i]>> >>
                         ELSE <<>>]
    IN {Pick(keep)[1] \o Pick(keep)[2] \o Pick(keep)[3] : keep \in [1..3 -> BOOLEAN]}

\* coordinator.py:198
CoordinateSpecialist ==
    /\ strategy = "specialist"
    /\ pc = "start"
    /\ \E roles \in RoleMaps :
         locals' = [proc |-> "specialist", prompt |-> prompt, roles |-> roles,
                    j |-> 1, responses |-> <<>>]
    /\ pc' = "specialist_loop"
    /\ UNCHANGED <<_global_registry, providers, prompt, order, strategy, initial_planner, cache, cache_file,
                   calls, tasks, frames, result, error, loop>>

\* coordinator.py:200-209: the next provider is asked
SpecialistAsk ==
    /\ pc = "specialist_loop"
    /\ locals.j <= Len(providers)
    /\ calls' = Append(calls, Call(providers[locals.j],
                                   RolePrompt(locals.prompt, locals.roles,
                                              providers[locals.j])))
    /\ pc' = "specialist_await"
    /\ UNCHANGED <<_global_registry, providers, prompt, order, strategy, initial_planner, cache, cache_file,
                   tasks, locals, frames, result, error, loop>>

\* coordinator.py:209-210: provider.ask returns or raises
SpecialistAnswer ==
    /\ pc = "specialist_await"
    /\ \E o \in Outcomes(providers[locals.j]) :
         /\ calls' = Ended(Len(calls), o)
         /\ IF o.raised
            THEN Propagate(o.value)
            ELSE /\ locals' = [locals EXCEPT
                                 !.responses = Put(@, providers[locals.j], o.value),
                                 !.j = @ + 1]
                 /\ pc' = "specialist_loop"
                 /\ UNCHANGED <<frames, result, error>>
    /\ UNCHANGED <<_global_registry, providers, prompt, order, strategy, initial_planner, cache, cache_file,
                   tasks, loop>>

\* coordinator.py:212
SpecialistReturn ==
    /\ pc = "specialist_loop"
    /\ locals.j > Len(providers)
    /\ Return([kind |-> "specialist", responses |-> locals.responses])
    /\ UNCHANGED <<_global_registry, providers, prompt, order, strategy, initial_planner,
                   calls, error, loop>>

InitSpecialist ==
    /\ InitCommon
    /\ strategy = "specialist"
    /\ order = NoOrder

NextSpecialist ==
    \/ CoordinateSpecialist
    \/ SpecialistAsk
    \/ SpecialistAnswer
    \/ SpecialistReturn

SpecSpecialist == InitSpecialist /\ [][NextSpecialist]_vars

\* C21: a specialist run that returns has called every enabled agent exactly
\* once, in the providers' order, each with the prompt "You are acting as a
\* <role>. Approach the following from that specific perspective:" followed
\* by the same base prompt, where <role> is the agent's entry of the role map
\* or "general assistant" when it has none; a key of the role map that names
\* no agent is never called; the result has exactly one entry per agent, the
\* agent's response.
C21_SpecialistRoles ==
    [][(strategy = "specialist" /\ pc = "specialist_loop" /\ pc' = "returned") =>
         LET n == Len(providers)
             roles == locals.roles
             RoleOf(a) ==
                 IF \E r \in 1..Len(roles) : roles[r][1] = a
                 THEN roles[CHOOSE r \in 1..Len(roles) : roles[r][1] = a][2]
                 ELSE "general assistant"
         IN /\ Len(calls') = n
            /\ result'.kind = "specialist"
            /\ Len(result'.responses) = n
            /\ \A a \in 1..n :
                 /\ calls'[a].agent = providers[a]
                 /\ calls'[a].prompt =
                      "You are acting as a " \o RoleOf(providers[a])
                      \o ". Approach the following from that specific perspective:\n\n"
                      \o prompt
                 /\ result'.responses[a] = <<providers[a], calls'[a].value>>
      ]_vars

\* a run with two agents or more has returned, the role map naming the
\* first agent and not the second
C21_Witness ==
    /\ strategy = "specialist"
    /\ pc = "returned"
    /\ result.kind = "specialist"
    /\ Len(providers) >= 2
    /\ Len(calls) = Len(providers)
    /\ Contains(calls[1].prompt, "expert for " \o providers[1])
    /\ Contains(calls[2].prompt, "general assistant")

\* C29 as the specification states it: the calls of the specialist run are
\* started without waiting for one another, so when a call has ended every
\* agent's call has been started.
C29_AsClaimed ==
    strategy = "specialist" =>
      \A c \in 1..Len(calls) :
        calls[c].st # "inflight" => Len(calls) = Len(providers)

---------------------------------------------------------------------------
(* AgentCoordinator.coordinate_code_build, coordinator.py:214-266 *)

\* cli.py:381-388: the stack and the context come from the session's
\* preferences; None and the empty dict test alike (coordinator.py:321, 325)
TechStacks == {<<>>, <<<<"language", "python">>, <<"framework", "fastapi">>>>}
ProjectContexts == {<<>>, <<<<"project_root", "/srv/app">>>>}

\* coordinator.py:235-238: the planning prompt is built and coordinate_consensus
\* is entered
CoordinateCodeBuild ==
    /\ strategy = "code_build"
    /\ pc = "start"
    /\ \E tech_stack \in TechStacks, project_context \in ProjectContexts :
         LET planning_prompt ==
               _build_planning_prompt(prompt, tech_stack, project_context)
         IN /\ frames' = <<[proc |-> "code_build", phase |-> "planning",
                             task |-> prompt, tech_stack |-> tech_stack,
                             project_context |-> project_context,
                             planning |-> NoResult, implementation |-> NoResult]>>
            /\ tasks' = ConsensusTasks(planning_prompt)
            /\ locals' = ConsensusLocals(planning_prompt)
    /\ pc' = "gather"
    /\ UNCHANGED <<_global_registry, providers, prompt, order, strategy, initial_planner, cache, cache_file,
                   calls, result, error, loop>>

InitCodeBuild ==
    /\ InitCommon
    /\ strategy = "code_build"
    /\ order = NoOrder

NextCodeBuild ==
    \/ CoordinateCodeBuild
    \/ \E i \in 1..MaxAgents : TaskStart(i)
    \/ \E i \in 1..MaxAgents : TaskFinish(i)
    \/ ConsensusSynthesize
    \/ ConsensusAnswer
    \/ SequentialAsk
    \/ SequentialAnswer
    \/ SequentialReturn

SpecCodeBuild == InitCodeBuild /\ [][NextCodeBuild]_vars

\* C10: once the Code-Build pipeline is over and at least one agent's call
\* succeeded, the pipeline has returned a result whose implementation has
\* exactly one entry per enabled agent and whose planning and review
\* syntheses are present and not empty, even if other calls failed.
C10_AsClaimed ==
    (/\ strategy = "code_build"
     /\ pc \in {"returned", "raised"}
     /\ \A c \in 1..Len(calls) : calls[c].st # "inflight"
     /\ \E c \in 1..Len(calls) : calls[c].st = "returned")
    => /\ pc = "returned"
       /\ result.kind = "code_build"
       /\ Keys(result.implementation) = providers
       /\ result.planning.consensus # ""
       /\ result.review.consensus # ""

\* C32: in the Code-Build pipeline with n agents the calls are, in this order,
\* the n+1 calls of the planning consensus, the n calls of the implementation
\* run, one per agent in provider order, and the n+1 calls of the review
\* consensus, 3n+2 in all when the pipeline returns.  An implementation call
\* is made only once every planning call, the synthesis included, has
\* returned, and after the implementation call before it has returned; its
\* prompt contains the text of the planning synthesis.  A review call is made
\* only once every implementation call has returned; its prompt contains,
\* for each agent, the first 500 characters of that agent's implementation,
\* and the prompt of a review call to an agent does not contain the whole of
\* an implementation longer than that.  Each call is examined in the states
\* in which it is the latest call made: a call's agent and prompt never
\* change once it is made.
C32_PhasesInOrder ==
    LET n == Len(providers)
        plan == n + 1
        impl(k) == n + 1 + k
        review == 2 * n + 2
        c == Len(calls)
    IN
    strategy = "code_build" =>
      /\ c <= 3 * n + 2
      /\ \A k \in 1..n :
           c = impl(k) =>
             /\ \A d \in 1..(c - 1) : calls[d].st = "returned"
             /\ calls[c].agent = providers[k]
             /\ Contains(calls[c].prompt, calls[plan].value)
      /\ c >= review =>
           /\ \A d \in 1..(review - 1) : calls[d].st = "returned"
           /\ \A k \in 1..n :
                LET code == calls[impl(k)].value IN
                /\ Contains(calls[c].prompt,
                            "From " \o providers[k] \o ":\n"
                            \o Slice(code, ContextLimit))
                /\ (c < review + n /\ Len(code) > ContextLimit) =>
                     ~Contains(calls[c].prompt, code)
      /\ pc = "returned" =>
           /\ c = 3 * n + 2
           /\ \A d \in 1..c : calls[d].st = "returned"

\* C32 happens: the pipeline returned with two agents or more, one of whose
\* implementations was longer than 500 characters
C32_Witness ==
    /\ strategy = "code_build"
    /\ pc = "returned"
    /\ Len(providers) >= 2
    /\ result.kind = "code_build"
    /\ \E k \in 1..Len(providers) :
         Len(calls[Len(providers) + 1 + k].value) > ContextLimit

---------------------------------------------------------------------------
(* AiTril.ask_tri and AiTril._ask_with_planner, orchestrator.py:109-230 *)

\* coordinator.py:124: rounds of coordinate_debate when the caller gives none
DefaultRounds == 2

\* orchestrator.py:166-176
PlannerPrompt(p) ==
    "You are the initial planner for this request. Create a comprehensive plan/design/approach to address the following:\n\n"
    \o p \o "\n\n"
    \o "Focus on:\n"
    \o "1. Overall strategy and architecture\n"
    \o "2. Key components and their relationships\n"
    \o "3. Implementation approach and considerations\n"
    \o "4. Potential challenges and solutions\n\n"
    \o "Provide a clear, structured plan that other agents can build upon and improve."

\* orchestrator.py:195-210 (mutant: the plan left out of the prompt)
BuilderPromptWithoutPlan(p, planner_response) ==
    "The following is an initial plan created by another AI agent to address a user request.\n\n"
    \o "USER REQUEST:\n" \o p \o "\n\n"
    \o "Build upon and enhance the initial plan with your unique perspective."

\* orchestrator.py:195-210
BuilderPrompt(p, planner_response) ==
    "The following is an initial plan created by another AI agent to address a user request.\n\n"
    \o "USER REQUEST:\n" \o p \o "\n\n"
    \o "INITIAL PLAN:\n" \o planner_response \o "\n\n"
    \o "Your role is to:\n"
    \o "1. Analyze and critique the plan\n"
    \o "2. Suggest improvements and optimizations\n"
    \o "3. Identify any gaps or issues\n"
    \o "4. Provide additional implementation details\n"
    \o "5. Offer alternative approaches if beneficial\n\n"
    \o "Build upon and enhance the initial plan with your unique perspective."

\* orchestrator.py:187: the providers other than the planner, in provider order
OtherProviders(planner_name) == SelectSeq(providers, LAMBDA n : n # planner_name)

\* orchestrator.py:219-222: one _query_builder coroutine per other provider
BuilderTasks(p, planner_name, planner_response) ==
    [i \in 1..Len(OtherProviders(planner_name)) |->
       Task("builder", OtherProviders(planner_name)[i],
            BuilderPrompt(p, planner_response))]

\* orchestrator.py:181-184: the planner's ask raised; _ask_parallel(prompt) is
\* what _ask_with_planner returns (mutant: the planner left out of the
\* fan-out)
PlannerFallbackOthersOnly(p, planner_name) ==
    [i \in 1..Len(OtherProviders(planner_name)) |->
       Task("query", OtherProviders(planner_name)[i], p)]

PlannerFallback(p, planner_name) == ParallelTasks(p)

\* orchestrator.py:227-228: for name, response in builder_results:
\* responses[name] = response
RECURSIVE PutAll(_, _)
PutAll(d, items) ==
    IF items = <<>> THEN d
    ELSE PutAll(Put(d, items[1][1], items[1][2]), Tail(items))

\* orchestrator.py:123-124 (mutant: the test missing)
NoProvidersNeverTrue(ps) == FALSE

NoProviders(ps) == ps = <<>>

\* orchestrator.py:123-139 (mutant: a strategy that is none of the four is
\* not run as parallel, the request ends there)
AskTriRejectsUnknown ==
    /\ pc = "ask_tri"
    /\ IF NoProviders(providers)
       THEN /\ Propagate("No providers enabled. Run 'aitril init' to configure providers.")
            /\ UNCHANGED tasks
       ELSE /\ frames' = <<[proc |-> "ask_tri"]>>
            /\ UNCHANGED <<result, error>>
            /\ IF initial_planner # "none" /\ initial_planner \in Range(providers)
               THEN /\ pc' = "planner_start"
                    /\ UNCHANGED <<tasks, locals>>
               ELSE IF strategy = "sequential"
               THEN /\ pc' = "seq_loop"
                    /\ locals' = SequentialLocals(prompt, providers)
                    /\ UNCHANGED tasks
               ELSE IF strategy = "consensus"
               THEN /\ pc' = "gather"
                    /\ tasks' = ConsensusTasks(prompt)
                    /\ locals' = ConsensusLocals(prompt)
               ELSE IF strategy = "debate"
               THEN /\ pc' = "debate_loop"
                    /\ locals' = DebateLocals(prompt, DefaultRounds)
                    /\ UNCHANGED tasks
               ELSE IF strategy = "parallel"
               THEN /\ pc' = "gather"
                    /\ tasks' = ParallelTasks(prompt)
                    /\ locals' = ParallelLocals
               ELSE /\ pc' = "raised"
                    /\ UNCHANGED <<tasks, locals>>
    /\ UNCHANGED <<_global_registry, providers, prompt, order, strategy, initial_planner, cache, cache_file,
                   calls, loop>>

\* orchestrator.py:123-139: ask_tri raises with no provider, else enters the
\* planner-first variant or the strategy's entry point
AskTri ==
    /\ pc = "ask_tri"
    /\ IF NoProviders(providers)
       THEN /\ Propagate("No providers enabled. Run 'aitril init' to configure providers.")
            /\ UNCHANGED tasks
       ELSE /\ frames' = <<[proc |-> "ask_tri"]>>
            /\ UNCHANGED <<result, error>>
            /\ IF initial_planner # "none" /\ initial_planner \in Range(providers)
               THEN /\ pc' = "planner_start"
                    /\ UNCHANGED <<tasks, locals>>
               ELSE IF strategy = "sequential"
               THEN /\ pc' = "seq_loop"
                    /\ locals' = SequentialLocals(prompt, providers)
                    /\ UNCHANGED tasks
               ELSE IF strategy = "consensus"
               THEN /\ pc' = "gather"
                    /\ tasks' = ConsensusTasks(prompt)
                    /\ locals' = ConsensusLocals(prompt)
               ELSE IF strategy = "debate"
               THEN /\ pc' = "debate_loop"
                    /\ locals' = DebateLocals(prompt, DefaultRounds)
                    /\ UNCHANGED tasks
               ELSE /\ pc' = "gather"
                    /\ tasks' = ParallelTasks(prompt)
                    /\ locals' = ParallelLocals
    /\ UNCHANGED <<_global_registry, providers, prompt, order, strategy, initial_planner, cache, cache_file,
                   calls, loop>>

\* orchestrator.py:163-179: the planner is asked for the plan
AskWithPlanner ==
    /\ pc = "planner_start"
    /\ calls' = Append(calls, Call(initial_planner, PlannerPrompt(prompt)))
    /\ locals' = [proc |-> "_ask_with_planner", planner_name |-> initial_planner,
                  responses |-> <<>>]
    /\ pc' = "planner_await"
    /\ UNCHANGED <<_global_registry, providers, prompt, order, strategy, initial_planner, cache, cache_file,
                   tasks, frames, result, error, loop>>

\* orchestrator.py:178-224: the planner's ask raises (fall back to
\* _ask_parallel) or returns (return at once when no other provider is
\* enabled, else gather the builders)
PlannerAnswer ==
    /\ pc = "planner_await"
    /\ \E o \in Outcomes(locals.planner_name) :
         /\ calls' = Ended(Len(calls), o)
         /\ IF o.raised
            THEN /\ tasks' = PlannerFallback(prompt, locals.planner_name)
                 /\ locals' = ParallelLocals
                 /\ pc' = "gather"
                 /\ UNCHANGED <<frames, result, cache, cache_file>>
            ELSE LET responses == Put(locals.responses, locals.planner_name, o.value) IN
                 IF OtherProviders(locals.planner_name) = <<>>
                 THEN Return([kind |-> "planner", responses |-> responses])
                 ELSE /\ tasks' = BuilderTasks(prompt, locals.planner_name, o.value)
                      /\ locals' = [locals EXCEPT !.responses = responses]
                      /\ pc' = "gather"
                      /\ UNCHANGED <<frames, result, cache, cache_file>>
    /\ UNCHANGED <<_global_registry, providers, prompt, order, strategy, initial_planner, error, loop>>

\* orchestrator.py:224-230: the builders' results are added and returned
PlannerReturn ==
    /\ Gathered
    /\ locals.proc = "_ask_with_planner"
    /\ Return([kind |-> "planner",
               responses |-> PutAll(locals.responses, GatherResults)])
    /\ UNCHANGED <<_global_registry, providers, prompt, order, strategy, initial_planner, calls,
                   error, loop>>

\* coordinator.py:421-427: the strategy names, and a string that is none of
\* them
Strategies ==
    {"parallel", "sequential", "consensus", "debate", "specialist",
     "code_build", "code_review", "round_robin"}
\* no planner, the first agent, or the second agent whether enabled or not
Planners == {"none", AgentNames[1], AgentNames[2]}
\* orchestrator.py:29-30: no cache, or the session's cache with the history
\* loaded from disk (cache.py:162)
Caches ==
    {NoCache,
     [enabled |-> TRUE, history |-> <<>>, ops |-> <<>>],
     [enabled |-> TRUE, ops |-> <<>>,
      history |-> << [prompt |-> "earlier question",
                      responses |-> [kind |-> "parallel",
                                     responses |-> <<<<"openai", "earlier answer">>>>]] >>]}

InitAskTri ==
    /\ providers \in {<<>>} \cup Enabled
    /\ _global_registry = IF providers = <<>> THEN NoRegistry
                          ELSE get_tool_registry(NoRegistry)
    /\ prompt \in Prompts
    /\ order = NoOrder
    /\ strategy \in Strategies
    /\ initial_planner \in Planners
    /\ cache \in Caches
    /\ cache_file = (IF cache.enabled THEN _save_cache(cache) ELSE NoFile)
    /\ pc = "ask_tri"
    /\ calls = <<>>
    /\ tasks = NoTasks
    /\ locals = NoLocals
    /\ frames = <<>>
    /\ result = NoResult
    /\ error = NoError
    /\ loop = NoLoop

NextAskTri ==
    \/ AskTri
    \/ AskWithPlanner
    \/ PlannerAnswer
    \/ PlannerReturn
    \/ \E i \in 1..MaxAgents : TaskStart(i)
    \/ \E i \in 1..MaxAgents : TaskFinish(i)
    \/ AskParallelReturn
    \/ SequentialAsk
    \/ SequentialAnswer
    \/ SequentialReturn
    \/ ConsensusSynthesize
    \/ ConsensusAnswer
    \/ DebateAsk
    \/ DebateAnswer
    \/ DebateReturn

SpecAskTri == InitAskTri /\ [][NextAskTri]_vars

\* the planner-first variant runs: a planner is named and it is enabled
PlannerFirst == initial_planner # "none" /\ initial_planner \in Range(providers)

\* C13: in the planner-first variant, when the planner's call raised, the
\* request does not fail: every later call carries the original prompt, the
\* later calls go to all enabled agents, the planner included, in provider
\* order, and the map ask_tri returns has exactly one entry per enabled agent
\* (the text the agent returned, or its tagged error).
C13_PlannerFallback ==
    (/\ PlannerFirst
     /\ Len(calls) >= 1
     /\ calls[1].st = "raised")
    => /\ calls[1].agent = initial_planner
       /\ pc # "raised"
       /\ \A c \in 2..Len(calls) :
            /\ calls[c].prompt = prompt
            /\ calls[c].agent = providers[c - 1]
       /\ pc = "returned" =>
            /\ Len(calls) = Len(providers) + 1
            /\ Keys(result.responses) = providers
            /\ \A c \in 2..Len(calls) :
                 Get(result.responses, calls[c].agent)
                   = IF calls[c].st = "raised" THEN "ERROR: " \o calls[c].value
                                               ELSE calls[c].value

\* C13 happens: the planner, second of three agents, raised, then answered
\* the original prompt in the fan-out, and ask_tri returned
C13_Witness ==
    /\ PlannerFirst
    /\ Len(providers) = 3
    /\ initial_planner = providers[2]
    /\ pc = "returned"
    /\ calls[1].st = "raised"
    /\ calls[3].st = "returned"

\* C33: in the planner-first variant the first call goes to the planner, with
\* a prompt other than the bare one, and no other call is made while it is in
\* flight.  When it returned: the request does not raise; the later calls go
\* to the remaining agents, one each in provider order, never to the planner
\* again, each with a prompt that contains the planner's text; a remaining
\* agent not yet called can be called whatever the state of the calls already
\* made (they run concurrently); and the map ask_tri returns has exactly one
\* entry per enabled agent, the planner's being its plan and a remaining
\* agent's being the text it returned or, when its call raised, the message
\* tagged with "ERROR: ".
C33_PlannerSucceeds ==
    LET others == OtherProviders(initial_planner) IN
    (PlannerFirst /\ Len(calls) >= 1) =>
      /\ calls[1].agent = initial_planner
      /\ calls[1].prompt # prompt
      /\ Contains(calls[1].prompt, prompt)
      /\ calls[1].st = "inflight" => Len(calls) = 1
      /\ calls[1].st = "returned" =>
           /\ pc # "raised"
           /\ Len(calls) <= Len(providers)
           /\ \A c \in 2..Len(calls) :
                /\ calls[c].agent = others[c - 1]
                /\ calls[c].agent # initial_planner
                /\ Contains(calls[c].prompt, calls[1].value)
           /\ (pc = "gather" /\ Len(calls) < Len(providers)) =>
                ENABLED TaskStart(Len(calls))
           /\ pc = "returned" =>
                /\ Len(calls) = Len(providers)
                /\ Len(result.responses) = Len(providers)
                /\ KeySet(result.responses) = Range(providers)
                /\ Get(result.responses, initial_planner) = calls[1].value
                /\ \A c \in 2..Len(calls) :
                     Get(result.responses, calls[c].agent)
                       = IF calls[c].st = "raised" THEN "ERROR: " \o calls[c].value
                                                   ELSE calls[c].value

\* C33 happens: the planner, second of three agents, returned its plan, one
\* of the two remaining agents raised, the other returned, and ask_tri
\* returned
C33_Witness ==
    /\ PlannerFirst
    /\ Len(providers) = 3
    /\ initial_planner = providers[2]
    /\ pc = "returned"
    /\ Len(calls) = 3
    /\ calls[1].st = "returned"
    /\ calls[2].st = "raised"
    /\ calls[3].st = "returned"

C14_NoAgentsIsFatal ==
    providers = <<>> =>
      /\ calls = <<>>
      /\ result = NoResult
      /\ cache \in Caches
      /\ pc \in {"ask_tri", "raised"}
      /\ pc = "raised" =>
           StartsWith(error, "No providers enabled")

\* C14 happens: ask_tri raised with no provider, a planner named, the debate
\* strategy asked for and a cache holding earlier history
C14_Witness ==
    /\ providers = <<>>
    /\ pc = "raised"
    /\ strategy = "debate"
    /\ initial_planner # "none"
    /\ cache.enabled
    /\ cache.history # <<>>

\* C16: for a request through ask_tri with caching enabled, the history store
\* is left untouched (no append, no other operation on it) as long as the
\* strategy runs and for good when the request raises; when ask_tri has
\* returned, add_to_history has been called exactly once, and the entry it
\* appended after the earlier history holds the request's prompt and the
\* whole result ask_tri returns.
C16_AppendOncePerRequest ==
    (pc # "off" /\ cache.enabled) =>
      /\ pc # "returned" => cache \in Caches
      /\ pc = "returned" =>
           /\ cache.ops = <<"add_to_history">>
           /\ Len(cache.history) >= 1
           /\ cache.history[Len(cache.history)]
                = [prompt |-> prompt, responses |-> result]
           /\ [cache EXCEPT !.ops = <<>>,
                            !.history = SubSeq(@, 1, Len(@) - 1)] \in Caches

\* C16 happens: a consensus request returned and its bundle was appended
\* after the entry the history already held
C16_Witness ==
    /\ pc = "returned"
    /\ cache.enabled
    /\ Len(cache.history) = 2
    /\ result.kind = "consensus"

---------------------------------------------------------------------------
(* Provider construction: Provider.__init__, providers.py:25-102,           *)
(* create_provider, providers.py:1129-1227, AiTril.__init__,               *)
(* orchestrator.py:18-51.  A provider configuration is the record of its   *)
(* keys; a key that is absent and a key whose value is empty test alike    *)
(* (if not value), so both are the empty string.  The process environment  *)
(* is a dict.                                                              *)

\* str.lower(), providers.py:1153, 1183
RECURSIVE Lower(_)
Lower(s) ==
    LET UpperCase == "ABCDEFGHIJKLMNOPQRSTUVWXYZ"
        LowerCase == "abcdefghijklmnopqrstuvwxyz"
        LowerChar(c) ==
            IF \E i \in 1..Len(UpperCase) : SubSeq(UpperCase, i, i) = c
            THEN LET i == CHOOSE i \in 1..Len(UpperCase) : SubSeq(UpperCase, i, i) = c
                 IN SubSeq(LowerCase, i, i)
            ELSE c
    IN IF s = "" THEN "" ELSE LowerChar(SubSeq(s, 1, 1)) \o Lower(SubSeq(s, 2, Len(s)))

\* os.environ.get(key, default)
EnvGet(environ, key, default) ==
    IF HasKey(environ, key) THEN Get(environ, key) ELSE default

\* the adapters' class attributes: providers.py:134-141, 325-332, 524-531,
\* 727-737, 803-813, 893-900, 1018-1035, 1075-1092
_get_env_var_name(class) ==
    CASE class \in {"OpenAIProvider", "OpenAICodexProvider"} -> "OPENAI_API_KEY"
      [] class \in {"AnthropicProvider", "ClaudeCodeProvider"} -> "ANTHROPIC_API_KEY"
      [] class \in {"GeminiProvider", "GeminiADKProvider"} -> "GOOGLE_API_KEY"
      [] class = "OllamaProvider" -> "OLLAMA_API_KEY"
      [] class = "LlamaCppProvider" -> "LLAMACPP_API_KEY"

_get_model_env_var_name(class) ==
    CASE class = "OpenAIProvider" -> "OPENAI_MODEL"
      [] class = "AnthropicProvider" -> "ANTHROPIC_MODEL"
      [] class = "GeminiProvider" -> "GEMINI_MODEL"
      [] class = "OllamaProvider" -> "OLLAMA_MODEL"
      [] class = "LlamaCppProvider" -> "LLAMACPP_MODEL"
      [] class = "ClaudeCodeProvider" -> "CLAUDE_CODE_MODEL"
      [] class = "OpenAICodexProvider" -> "OPENAI_CODEX_MODEL"
      [] class = "GeminiADKProvider" -> "GEMINI_ADK_MODEL"

_default_model(class, environ) ==
    LET \* the first of the variables a, b that is set and not empty
        FirstSet(a, b, fallback) ==
            IF EnvGet(environ, a, "") # "" THEN EnvGet(environ, a, "")
            ELSE IF EnvGet(environ, b, "") # "" THEN EnvGet(environ, b, "")
            ELSE fallback
    IN
    CASE class = "OpenAIProvider" -> "gpt-4o"
      [] class = "AnthropicProvider" -> "claude-opus-4-5-20251124"
      [] class = "GeminiProvider" -> "gemini-2.0-flash-exp"
      [] class = "OllamaProvider" -> "llama2"
      [] class = "LlamaCppProvider" -> "default"
      [] class = "ClaudeCodeProvider" -> "claude-opus-4-5-20251101"
      [] class = "OpenAICodexProvider" ->
           FirstSet("OPENAI_CODEX_MODEL", "OPENAI_MODEL", "gpt-4-turbo")
      [] class = "GeminiADKProvider" ->
           FirstSet("GEMINI_ADK_MODEL", "GEMINI_MODEL", "gemini-2.0-flash-exp")

_requires_api_key(class) == class \notin {"OllamaProvider", "LlamaCppProvider"}

\* providers.py:53-73 (mutant: the environment before the configuration)
GetModelEnvironFirst(class, config, environ) ==
    IF EnvGet(environ, _get_model_env_var_name(class), "") # ""
    THEN EnvGet(environ, _get_model_env_var_name(class), "")
    ELSE IF config.model # "" THEN config.model
    ELSE _default_model(class, environ)

_get_model(class, config, environ) ==
    IF config.model # "" THEN config.model
    ELSE IF EnvGet(environ, _get_model_env_var_name(class), "") # ""
    THEN EnvGet(environ, _get_model_env_var_name(class), "")
    ELSE _default_model(class, environ)

\* an exception of a constructor or of create_provider
RaisedAs(type, msg) == [raised |-> TRUE, type |-> type, value |-> msg]

\* providers.py:79-102 (mutant: every adapter requires a key)
GetApiKeyAlwaysRequired(class, config, environ) ==
    LET api_key == IF config.api_key # "" THEN config.api_key
                   ELSE EnvGet(environ, _get_env_var_name(class), "")
    IN IF api_key = ""
       THEN RaisedAs("ValueError", "No API key found for " \o class \o ". Set "
                     \o _get_env_var_name(class)
                     \o " environment variable or configure via 'aitril init'.")
       ELSE Returned(api_key)

_get_api_key(class, config, environ) ==
    LET api_key == IF config.api_key # "" THEN config.api_key
                   ELSE EnvGet(environ, _get_env_var_name(class), "")
    IN IF api_key = "" /\ _requires_api_key(class)
       THEN RaisedAs("ValueError", "No API key found for " \o class \o ". Set "
                     \o _get_env_var_name(class)
                     \o " environment variable or configure via 'aitril init'.")
       ELSE Returned(api_key)

\* providers.py:25-36, Provider.__init__ of the class: the instance or the
\* exception the constructor raises
New(class, config, environ) ==
    LET key == _get_api_key(class, config, environ) IN
    IF key.raised THEN key
    ELSE Returned([class |-> class, config |-> config, api_key |-> key.value,
                   model |-> _get_model(class, config, environ)])

\* environments of the process: nothing set; the keys set; keys, models and
\* the switch set to "false"; keys, the specialized and the general model set
\* and the switch spelled "TRUE"; a model but no key
Environs ==
    { <<>>,
      << <<"OPENAI_API_KEY", "sk-env-openai">>,
         <<"ANTHROPIC_API_KEY", "sk-env-anthropic">> >>,
      << <<"OPENAI_API_KEY", "sk-env-openai">>,
         <<"ANTHROPIC_API_KEY", "sk-env-anthropic">>,
         <<"OPENAI_MODEL", "openai-model-env">>,
         <<"ANTHROPIC_MODEL", "anthropic-model-env">>,
         <<"OLLAMA_MODEL", "ollama-model-env">>,
         <<"USE_SPECIALIZED_PROVIDERS", "false">> >>,
      << <<"OPENAI_API_KEY", "sk-env-openai">>,
         <<"ANTHROPIC_API_KEY", "sk-env-anthropic">>,
         <<"OPENAI_MODEL", "openai-model-env">>,
         <<"OPENAI_CODEX_MODEL", "codex-model-env">>,
         <<"CLAUDE_CODE_MODEL", "">>,
         <<"LLAMACPP_MODEL", "llamacpp-model-env">>,
         <<"USE_SPECIALIZED_PROVIDERS", "TRUE">> >>,
      << <<"OPENAI_MODEL", "openai-model-env">>,
         <<"OPENAI_API_KEY", "">> >> }

\* providers.py:1129-1227: the instance create_provider returns or the
\* exception it raises (mutant: USE_SPECIALIZED_PROVIDERS is not consulted)
CreateProviderIgnoresSwitch(name, config, environ) ==
    LET \* providers.py:1156-1182
        specialized_providers ==
            << <<"claudecode", "ClaudeCodeProvider">>,
               <<"openaicodex", "OpenAICodexProvider">>,
               <<"geminiadk", "GeminiADKProvider">> >>
        general_providers ==
            << <<"openai", "OpenAIProvider">>, <<"anthropic", "AnthropicProvider">>,
               <<"gemini", "GeminiProvider">>, <<"ollama", "OllamaProvider">>,
               <<"llamacpp", "LlamaCppProvider">> >>
        fallback_map ==
            << <<"claudecode", "anthropic">>, <<"openaicodex", "openai">>,
               <<"geminiadk", "gemini">> >>
        upgrade_map ==
            << <<"anthropic", "claudecode">>, <<"openai", "openaicodex">>,
               <<"gemini", "geminiadk">> >>
        \* except (RuntimeError, FileNotFoundError), providers.py:1194, 1203
        Recoverable(r) == r.raised /\ r.type \in {"RuntimeError", "FileNotFoundError"}
        use_specialized == TRUE
        name_lower == Lower(name)
        General(n) == New(Get(general_providers, n), config, environ)
        Special(n) == New(Get(specialized_providers, n), config, environ)
        Rest ==
            IF HasKey(general_providers, name_lower) THEN General(name_lower)
            ELSE IF ~use_specialized /\ HasKey(fallback_map, name_lower)
            THEN General(Get(fallback_map, name_lower))
            ELSE RaisedAs("ValueError",
                          "Unknown provider: " \o name \o ". Available: anthropic, "
                          \o "claudecode, gemini, geminiadk, llamacpp, ollama, "
                          \o "openai, openaicodex")
        Direct ==
            IF use_specialized /\ HasKey(specialized_providers, name_lower)
            THEN IF Recoverable(Special(name_lower))
                 THEN General(Get(fallback_map, name_lower))
                 ELSE Special(name_lower)
            ELSE Rest
    IN IF use_specialized /\ HasKey(upgrade_map, name_lower)
       THEN IF Recoverable(Special(Get(upgrade_map, name_lower)))
            THEN Direct
            ELSE Special(Get(upgrade_map, name_lower))
       ELSE Direct

create_provider(name, config, environ) ==
    LET \* providers.py:1156-1182
        specialized_providers ==
            << <<"claudecode", "ClaudeCodeProvider">>,
               <<"openaicodex", "OpenAICodexProvider">>,
               <<"geminiadk", "GeminiADKProvider">> >>
        general_providers ==
            << <<"openai", "OpenAIProvider">>, <<"anthropic", "AnthropicProvider">>,
               <<"gemini", "GeminiProvider">>, <<"ollama", "OllamaProvider">>,
               <<"llamacpp", "LlamaCppProvider">> >>
        fallback_map ==
            << <<"claudecode", "anthropic">>, <<"openaicodex", "openai">>,
               <<"geminiadk", "gemini">> >>
        upgrade_map ==
            << <<"anthropic", "claudecode">>, <<"openai", "openaicodex">>,
               <<"gemini", "geminiadk">> >>
        \* except (RuntimeError, FileNotFoundError), providers.py:1194, 1203
        Recoverable(r) == r.raised /\ r.type \in {"RuntimeError", "FileNotFoundError"}
        use_specialized ==
            Lower(EnvGet(environ, "USE_SPECIALIZED_PROVIDERS", "true")) = "true"
        name_lower == Lower(name)
        General(n) == New(Get(general_providers, n), config, environ)
        Special(n) == New(Get(specialized_providers, n), config, environ)
        Rest ==
            IF HasKey(general_providers, name_lower) THEN General(name_lower)
            ELSE IF ~use_specialized /\ HasKey(fallback_map, name_lower)
            THEN General(Get(fallback_map, name_lower))
            ELSE RaisedAs("ValueError",
                          "Unknown provider: " \o name \o ". Available: anthropic, "
                          \o "claudecode, gemini, geminiadk, llamacpp, ollama, "
                          \o "openai, openaicodex")
        Direct ==
            IF use_specialized /\ HasKey(specialized_providers, name_lower)
            THEN IF Recoverable(Special(name_lower))
                 THEN General(Get(fallback_map, name_lower))
                 ELSE Special(name_lower)
            ELSE Rest
    IN IF use_specialized /\ HasKey(upgrade_map, name_lower)
       THEN IF Recoverable(Special(Get(upgrade_map, name_lower)))
            THEN Direct
            ELSE Special(Get(upgrade_map, name_lower))
       ELSE Direct

\* provider_config.get("provider_type", name), orchestrator.py:39
NoType == "<absent>"
provider_type(name, config) == IF config.provider_type = NoType THEN name
                               ELSE config.provider_type

\* orchestrator.py:33-47: the loop of AiTril.__init__ handles the next item of
\* config["providers"]
CreateNext ==
    /\ pc = "init"
    /\ locals.i <= Len(locals.config)
    /\ LET name == locals.config[locals.i][1]
           provider_config == locals.config[locals.i][2]
           made == create_provider(provider_type(name, provider_config),
                                   provider_config, locals.environ)
       IN IF ~provider_config.enabled
          THEN /\ locals' = [locals EXCEPT !.i = @ + 1]
               /\ UNCHANGED <<providers, _global_registry>>
          ELSE IF made.raised
          THEN /\ locals' = [locals EXCEPT
                               !.i = @ + 1,
                               !.warnings = Append(@, "Warning: Failed to initialize "
                                                      \o name \o " provider: "
                                                      \o made.value)]
               /\ UNCHANGED <<providers, _global_registry>>
          ELSE \* providers.py:35: the constructor that returned has taken the
               \* registry, self.tool_registry = get_tool_registry()
               /\ _global_registry' = get_tool_registry(_global_registry)
               /\ locals' = [locals EXCEPT
                               !.i = @ + 1,
                               !.instances = Put(@, name, made.value),
                               !.tool_registry = Put(@, name, _global_registry'.id)]
               /\ providers' = Keys(Put(locals.instances, name, made.value))
    /\ UNCHANGED <<prompt, order, strategy, initial_planner, cache, cache_file, pc, calls,
                   tasks, frames, result, error, loop>>

\* orchestrator.py:49-51: the loop is over, the coordinator is created
Created ==
    /\ pc = "init"
    /\ locals.i > Len(locals.config)
    /\ pc' = "constructed"
    /\ UNCHANGED <<_global_registry, providers, prompt, order, strategy, initial_planner, cache, cache_file,
                   calls, tasks, locals, frames, result, error, loop>>

\* the process environment is rewritten after the providers were constructed
\* (os.environ is process state; web.py:34 loads a .env file over it)
EnvironChanges ==
    /\ pc = "constructed"
    /\ locals.environ = locals.constructed_in
    /\ \E e \in Environs \ {locals.environ} : locals' = [locals EXCEPT !.environ = e]
    /\ UNCHANGED <<_global_registry, providers, prompt, order, strategy, initial_planner, cache, cache_file,
                   pc, calls, tasks, frames, result, error, loop>>

\* at most this many items in config["providers"]
MaxConfig == 2

\* names config["providers"] can hold (settings.py, config.py); "custom1" says
\* by provider_type which adapter it is
ConfigNames == {"openai", "anthropic", "ollama", "custom1"}
ProviderConfigs(name) ==
    [enabled : BOOLEAN, api_key : {"", "sk-config"}, model : {"", "model-config"},
     provider_type : IF name = "custom1" THEN {"LlamaCpp", "bogus"} ELSE {NoType}]
Configs ==
    UNION {{c \in [1..n -> UNION {{<<name, pc0>> : pc0 \in ProviderConfigs(name)}
                                     : name \in ConfigNames}] :
              \A i, j \in 1..n : c[i][1] = c[j][1] => i = j}
           : n \in 1..MaxConfig}

InitConstruct ==
    /\ _global_registry = NoRegistry
    /\ providers = <<>>
    /\ prompt \in Prompts
    /\ order = NoOrder
    /\ strategy = "none"
    /\ initial_planner = "none"
    /\ cache = NoCache
    /\ cache_file = NoFile
    /\ pc = "init"
    /\ calls = <<>>
    /\ tasks = NoTasks
    /\ \E config \in Configs, environ \in Environs :
         locals = [proc |-> "__init__", config |-> config, environ |-> environ,
                   constructed_in |-> environ, claude_cli |-> TRUE, i |-> 1,
                   instances |-> <<>>, warnings |-> <<>>,
                   asked |-> <<>>, tool_registry |-> <<>>]
    /\ frames = <<>>
    /\ result = NoResult
    /\ error = NoError
    /\ loop = NoLoop

NextConstruct ==
    \/ CreateNext
    \/ Created
    \/ EnvironChanges

SpecConstruct == InitConstruct /\ [][NextConstruct]_vars

\* C15: once the orchestrator is constructed, an item that is not enabled has
\* no instance; an enabled item whose adapter requires a credential and finds
\* none in the configuration or the environment has no instance and a warning
\* that names it, while construction went on; every other enabled item of a
\* known adapter has its instance, the local adapters (Ollama, Llama.cpp)
\* without any credential.
C15_SkipsUnconstructible ==
    pc = "constructed" =>
      \A i \in 1..Len(locals.config) :
        LET name == locals.config[i][1]
            cfg == locals.config[i][2]
            type == Lower(IF cfg.provider_type = NoType THEN name ELSE cfg.provider_type)
            Known == type \in {"openai", "anthropic", "gemini", "ollama", "llamacpp",
                               "claudecode", "openaicodex", "geminiadk"}
            Local == type \in {"ollama", "llamacpp"}
            KeyVar == CASE type \in {"openai", "openaicodex"} -> "OPENAI_API_KEY"
                        [] type \in {"anthropic", "claudecode"} -> "ANTHROPIC_API_KEY"
                        [] OTHER -> "GOOGLE_API_KEY"
            NoKey == /\ cfg.api_key = ""
                     /\ \A e \in 1..Len(locals.constructed_in) :
                          locals.constructed_in[e][1] = KeyVar
                            => locals.constructed_in[e][2] = ""
            Warned == \E w \in 1..Len(locals.warnings) :
                        /\ StartsWith(locals.warnings[w],
                                      "Warning: Failed to initialize " \o name \o " provider: ")
                        /\ Contains(locals.warnings[w], "No API key found")
        IN /\ ~cfg.enabled => ~HasKey(locals.instances, name)
           /\ (cfg.enabled /\ Known /\ ~Local /\ NoKey)
                => ~HasKey(locals.instances, name) /\ Warned
           /\ (cfg.enabled /\ Known /\ (Local \/ ~NoKey))
                => /\ HasKey(locals.instances, name)
                   /\ \E k \in 1..Len(providers) : providers[k] = name
           /\ (cfg.enabled /\ Local /\ cfg.api_key = "")
                => /\ HasKey(locals.instances, name)
                   /\ Get(locals.instances, name).api_key = ""

\* two enabled items, the first without its credential and skipped with a
\* warning, the second constructed
C15_Witness ==
    /\ pc = "constructed"
    /\ Len(locals.config) = 2
    /\ locals.config[1][1] = "openai"
    /\ locals.config[1][2].enabled
    /\ locals.config[2][2].enabled
    /\ Len(locals.warnings) = 1
    /\ providers = <<locals.config[2][1]>>

\* C17: every constructed adapter holds the model and the credential resolved
\* in the order configuration, environment, default, from the environment of
\* its construction: a non-empty configured value wins, the adapter's
\* environment variable is used only when the configuration has none, the
\* default only when both have none (the credential has no default), and a
\* later change of the environment does not change the resolved values.
C17_ResolutionOrder ==
    pc = "constructed" =>
      \A i \in 1..Len(locals.instances) :
        LET inst == locals.instances[i][2]
            environ == locals.constructed_in
            InEnviron(var) ==
                IF \E e \in 1..Len(environ) : environ[e][1] = var
                THEN environ[CHOOSE e \in 1..Len(environ) : environ[e][1] = var][2]
                ELSE ""
            model_env == InEnviron(_get_model_env_var_name(inst.class))
            key_env == InEnviron(_get_env_var_name(inst.class))
        IN /\ inst.config.model # "" => inst.model = inst.config.model
           /\ (inst.config.model = "" /\ model_env # "") => inst.model = model_env
           /\ (inst.config.model = "" /\ model_env = "")
                => inst.model = _default_model(inst.class, environ)
           /\ inst.model # ""
           /\ inst.config.api_key # "" => inst.api_key = inst.config.api_key
           /\ inst.config.api_key = "" => inst.api_key = key_env

\* an adapter configured with a model and a key, constructed where the
\* environment sets both too, and the environment changed afterwards
C17_Witness ==
    /\ pc = "constructed"
    /\ locals.environ # locals.constructed_in
    /\ \E i \in 1..Len(locals.instances) :
         LET inst == locals.instances[i][2] IN
         /\ inst.model = "model-config"
         /\ inst.api_key = "sk-config"
         /\ EnvGet(locals.constructed_in, _get_model_env_var_name(inst.class), "") # ""
         /\ EnvGet(locals.constructed_in, _get_env_var_name(inst.class), "") # ""
         /\ _get_model(inst.class, [inst.config EXCEPT !.model = ""], locals.environ)
              # _get_model(inst.class, [inst.config EXCEPT !.model = ""],
                           locals.constructed_in)

\* at most this many ask_single calls on one orchestrator
MaxAsks == 2

\* what ask of an instance of the class can do, providers.py:918-958 for
\* ClaudeCodeProvider: the subprocess cannot be started when the binary is
\* missing, else it ends with exit status 0 or not; the path is that of
\* providers.py:900-914 when CLAUDE_CODE_CLI_PATH is not set and no claude
\* binary is on the PATH
AskOutcomes(class, a, claude_cli) ==
    LET DefaultCliPath == "/usr/local/bin/claude" IN
    IF class = "ClaudeCodeProvider"
    THEN IF claude_cli
         THEN {Returned(ShortReply(a)),
               Raised("Claude Code CLI error: " \o ErrorText(a))}
         ELSE {Raised("Claude Code CLI not found at " \o DefaultCliPath
                      \o ". Install Claude Code or set CLAUDE_CODE_CLI_PATH "
                      \o "environment variable.")}
    ELSE {Returned(ShortReply(a)), Raised(ErrorText(a))}

\* at most this many chunks in one stream of an adapter
MaxChunks == 2

\* the names ask_single and ask_single_stream are called with: the enabled
\* providers and a name that is none of them
AskedNames == Range(providers) \cup {"nobody"}

\* orchestrator.py:76-81, 99-104
NotEnabled(provider_name) ==
    "Provider '" \o provider_name \o "' is not enabled. Available providers: "
    \o Join(", ", providers)

\* orchestrator.py:62-83, ask_single up to its await, or to its ValueError
\* (mutant: the test of the name missing, the provider asked for is called)
AskSingleNoCheck ==
    /\ pc = "constructed"
    /\ Len(locals.asked) < MaxAsks
    /\ \E provider_name \in AskedNames :
         /\ locals' = [locals EXCEPT
                         !.asked = Append(@, [name |-> provider_name, stream |-> FALSE])]
         /\ calls' = Append(calls, Call(provider_name, prompt))
         /\ pc' = "ask_single"
         /\ error' = NoError
    /\ result' = NoResult
    /\ UNCHANGED <<_global_registry, providers, prompt, order, strategy, initial_planner, cache, cache_file,
                   tasks, frames, loop>>

AskSingle ==
    /\ pc = "constructed"
    /\ Len(locals.asked) < MaxAsks
    /\ \E provider_name \in AskedNames :
         /\ locals' = [locals EXCEPT
                         !.asked = Append(@, [name |-> provider_name, stream |-> FALSE])]
         /\ IF provider_name \notin Range(providers)
            THEN /\ error' = NotEnabled(provider_name)
                 /\ UNCHANGED <<calls, pc>>
            ELSE /\ calls' = Append(calls, Call(provider_name, prompt))
                 /\ pc' = "ask_single"
                 /\ error' = NoError
    /\ result' = NoResult
    /\ UNCHANGED <<_global_registry, providers, prompt, order, strategy, initial_planner, cache, cache_file,
                   tasks, frames, loop>>

\* orchestrator.py:83: the adapter's ask ends and ask_single ends as it did
AskSingleAnswer ==
    /\ pc = "ask_single"
    /\ LET c == Len(calls)
           instance == Get(locals.instances, calls[c].agent)
       IN \E o \in AskOutcomes(instance.class, calls[c].agent, locals.claude_cli) :
            /\ calls' = Ended(c, o)
            /\ IF o.raised
               THEN /\ error' = o.value
                    /\ result' = NoResult
               ELSE /\ result' = o.value
                    /\ error' = NoError
    /\ pc' = "constructed"
    /\ UNCHANGED <<_global_registry, providers, prompt, order, strategy, initial_planner, cache, cache_file,
                   tasks, locals, frames, loop>>

\* orchestrator.py:85-104: the consumer asks ask_single_stream's generator
\* for its first chunk: ValueError for a name that is not enabled, else the
\* generator reaches provider.ask_stream(prompt), orchestrator.py:106
AskSingleStream ==
    /\ pc = "constructed"
    /\ Len(locals.asked) < MaxAsks
    /\ \E provider_name \in AskedNames :
         /\ locals' = [locals EXCEPT
                         !.asked = Append(@, [name |-> provider_name, stream |-> TRUE])]
         /\ IF provider_name \notin Range(providers)
            THEN /\ error' = NotEnabled(provider_name)
                 /\ result' = NoResult
                 /\ UNCHANGED <<calls, pc>>
            ELSE /\ calls' = Append(calls, Call(provider_name, prompt))
                 /\ pc' = "ask_single_stream"
                 /\ error' = NoError
                 /\ result' = [kind |-> "stream", chunks |-> <<>>]
    /\ UNCHANGED <<_global_registry, providers, prompt, order, strategy, initial_planner, cache, cache_file,
                   tasks, frames, loop>>

\* orchestrator.py:106-107: the adapter's generator yields its next chunk,
\* which is yielded on, or is exhausted, or raises
AskSingleStreamNext ==
    /\ pc = "ask_single_stream"
    /\ LET c == Len(calls)
           instance == Get(locals.instances, calls[c].agent)
           outcomes == AskOutcomes(instance.class, calls[c].agent, locals.claude_cli)
           works == \E o \in outcomes : ~o.raised
       IN \/ /\ works
             /\ Len(result.chunks) < MaxChunks
             /\ result' = [result EXCEPT
                             !.chunks = Append(@, "chunk " \o ToString(Len(@) + 1)
                                                  \o " of " \o calls[c].agent)]
             /\ UNCHANGED <<calls, pc, error>>
          \/ /\ works
             /\ calls' = Ended(c, Returned(Join("", result.chunks)))
             /\ pc' = "constructed"
             /\ UNCHANGED <<result, error>>
          \/ \E o \in outcomes :
               /\ o.raised
               /\ calls' = Ended(c, o)
               /\ error' = o.value
               /\ pc' = "constructed"
               /\ UNCHANGED result
    /\ UNCHANGED <<_global_registry, providers, prompt, order, strategy, initial_planner, cache, cache_file,
                   tasks, locals, frames, loop>>

\* one item in config["providers"], named after a general or a specialized
\* adapter, in lower case or not, or after none, and the claude binary
\* installed or not
SpecializedNames ==
    {"anthropic", "openai", "gemini", "ollama", "llamacpp", "claudecode",
     "openaicodex", "geminiadk", "ClaudeCode", "Ollama", "mistral"}
InitSpecialized ==
    /\ _global_registry = NoRegistry
    /\ providers = <<>>
    /\ prompt \in Prompts
    /\ order = NoOrder
    /\ strategy = "none"
    /\ initial_planner = "none"
    /\ cache = NoCache
    /\ cache_file = NoFile
    /\ pc = "init"
    /\ calls = <<>>
    /\ tasks = NoTasks
    /\ \E name \in SpecializedNames, environ \in Environs, claude_cli \in BOOLEAN :
       \E provider_config \in [enabled : {TRUE}, api_key : {"", "sk-config"},
                               model : {"", "model-config"}, provider_type : {NoType}] :
         locals = [proc |-> "__init__", config |-> << <<name, provider_config>> >>,
                   environ |-> environ, constructed_in |-> environ,
                   claude_cli |-> claude_cli, i |-> 1,
                   instances |-> <<>>, warnings |-> <<>>,
                   asked |-> <<>>, tool_registry |-> <<>>]
    /\ frames = <<>>
    /\ result = NoResult
    /\ error = NoError
    /\ loop = NoLoop

NextSpecialized ==
    \/ CreateNext
    \/ Created
    \/ AskSingle
    \/ AskSingleAnswer
    \/ AskSingleStream
    \/ AskSingleStreamNext

SpecSpecialized == InitSpecialized /\ [][NextSpecialized]_vars

\* C18 as the specification states it: with specialized providers enabled
\* and the claude binary missing, a request to the agent constructed as the
\* specialized variant is answered by the general adapter, that is, the call
\* does not end with the specialized variant's "CLI not found" error.
C18_AsClaimed ==
    \A c \in 1..Len(calls) :
      (/\ calls[c].st # "inflight"
       /\ Lower(EnvGet(locals.constructed_in, "USE_SPECIALIZED_PROVIDERS", "true")) = "true"
       /\ ~locals.claude_cli)
        => ~StartsWith(calls[c].value, "Claude Code CLI not found")

---------------------------------------------------------------------------
(* ToolRegistry, tools.py:341-404 *)

\* tools.py:348-358: the names of the default tools
RegisteredTools ==
    {"execute_shell_command", "get_system_info", "file_operation", "http_request"}

\* tools.py:394-404.  behaviour is what tool.execute does with the arguments:
\* Returned(text) or Raised(text of the exception)
\* (mutants: the handler missing; the lookup's early return missing)
ExecuteToolNoHandler(name, behaviour) ==
    IF name \notin RegisteredTools
    THEN Returned("Error: Tool '" \o name \o "' not found")
    ELSE behaviour

ExecuteToolNoLookup(name, behaviour) ==
    IF name \notin RegisteredTools
    THEN Raised("'NoneType' object has no attribute 'execute'")
    ELSE IF behaviour.raised
    THEN Returned("Error executing tool '" \o name \o "': " \o behaviour.value)
    ELSE Returned(behaviour.value)

execute_tool(name, behaviour) ==
    IF name \notin RegisteredTools
    THEN Returned("Error: Tool '" \o name \o "' not found")
    ELSE IF behaviour.raised
    THEN Returned("Error executing tool '" \o name \o "': " \o behaviour.value)
    ELSE Returned(behaviour.value)

---------------------------------------------------------------------------
(* The tool-calling loop of an adapter: OpenAIProvider.ask / ask_stream    *)
(* (providers.py:143-319), AnthropicProvider.ask / ask_stream (334-518),   *)
(* GeminiProvider.ask / ask_stream (560-721).                              *)

\* providers.py:160, 227, 351, 419, 586, 659: max_iterations (mutant: one
\* round more)
MaxIterationsOneMore == 5 + 1

MaxIterations == 5
\* at most this many tool calls in one model response
MaxCalls == 2
\* at most this many events of one run depart from the plain round, in which
\* the response carries a text and one call, with arguments that parse, of a
\* registered tool that returns: a response without text, one more call in a
\* response, an unknown tool, arguments that are no JSON, a tool that raises
MaxOdd == 2

Adapters == {"openai", "anthropic", "gemini"}
Modes == {"ask", "ask_stream"}
\* names the model asks for: a registered one and one that is not
RequestedTools == {"get_system_info", "no_such_tool"}
ToolBehaviours == {Returned("UTC"), Raised("command failed")}
\* providers.py:318, 517, 711
Sentinel == "\n(Maximum tool iterations reached)\n"

\* the adapters that get a call's arguments as JSON text and parse it
\* themselves (providers.py:195, 297, 458); the others get a parsed object
ParsesArguments(adapter, mode) ==
    adapter = "openai" \/ (adapter = "anthropic" /\ mode = "ask_stream")

ToolCall(id, name, arguments) == [id |-> id, name |-> name, arguments |-> arguments]
Turn(role, content, tool_calls, results) ==
    [role |-> role, content |-> content, tool_calls |-> tool_calls,
     results |-> results]
ToolResult(id, content) == [id |-> id, content |-> content]

\* text of a response of the given round: None / no text block, or a text
ResponseTexts(iteration) == {"", "text of round " \o ToString(iteration + 1)}

Silent(t) == IF t = "" THEN 1 ELSE 0

CallId(iteration, k) == "call_" \o ToString(iteration + 1) \o "_" \o ToString(k)

IsFaulty(call) == call.name \notin RegisteredTools \/ call.arguments # "{}"
Faults(tool_calls) == Cardinality({k \in 1..Len(tool_calls) : IsFaulty(tool_calls[k])})

\* the lists of tool calls a response of this round can carry: 1..MaxCalls
\* calls, each naming a tool and carrying arguments (JSON text that parses, or
\* does not where the adapter parses it itself)
RECURSIVE CallLists(_, _, _)
CallLists(iteration, args, n) ==
    IF n = 0 THEN {<<>>}
    ELSE {Append(tcs, ToolCall(CallId(iteration, n), name, a)) :
            tcs \in CallLists(iteration, args, n - 1),
            name \in RequestedTools, a \in args}

ToolCallLists(iteration, adapter, mode, budget) ==
    LET args == IF ParsesArguments(adapter, mode) THEN {"{}", "{not json"} ELSE {"{}"}
    IN  {tcs \in UNION {CallLists(iteration, args, n) : n \in 1..MaxCalls} :
            Len(tcs) - 1 + Faults(tcs) <= budget}

LoopStart(adapter, mode, p) ==
    [pc |-> "request", adapter |-> adapter, mode |-> mode, iteration |-> 0,
     requests |-> 0, odd |-> 0, executed |-> 0,
     messages |-> IF adapter = "gemini" THEN <<>> ELSE <<Turn("user", p, <<>>, <<>>)>>,
     current_prompt |-> Turn("user", p, <<>>, <<>>),
     sent |-> <<>>,
     text |-> "", tool_calls |-> <<>>, next_call |-> 1, tool_results |-> <<>>,
     chunks |-> <<>>, delivered |-> <<>>, ret |-> "", exc |-> "",
     execs |-> <<>>]

\* the run ends: ask returns text / the generator of ask_stream is exhausted.
\* providers.py:715: Gemini's ask_stream runs its loop to the end in an
\* executor, as list(_sync_stream_with_tools(prompt)), and hands the chunks
\* on only after that
LoopReturns(l, text) ==
    [l EXCEPT !.pc = "returned", !.ret = text, !.delivered = l.chunks]
\* the run ends with an exception leaving ask / ask_stream
LoopRaises(l, msg) == [l EXCEPT !.pc = "raised", !.exc = msg]

\* yield chunk (ask_stream only): chunks are the chunks the loop has yielded,
\* delivered those the consumer of ask_stream has got; Gemini's loop yields
\* into the list of providers.py:715
Yield(l, chunk) ==
    IF l.mode = "ask_stream"
    THEN [l EXCEPT !.chunks = Append(@, chunk),
                   !.delivered = IF l.adapter = "gemini" THEN @ ELSE Append(@, chunk)]
    ELSE l
\* providers.py:247-249, 447-450, 669-671: text is yielded when there is some
YieldText(l, t) == IF t = "" THEN l ELSE Yield(l, t)

\* what a request transmits: messages (OpenAI, Anthropic); the chat's history
\* and current_prompt (Gemini, chat.send_message)
Transmitted(l) ==
    IF l.adapter = "gemini" THEN Append(l.messages, l.current_prompt) ELSE l.messages

\* (mutant of Answered: the assistant turn takes the place of the last turn)
AnsweredInPlace(l, t, tcs) ==
    IF l.adapter = "gemini"
    THEN l.messages \o <<l.current_prompt, Turn("model", t, tcs, <<>>)>>
    ELSE IF tcs = <<>> THEN l.messages
    ELSE IF Len(l.messages) > 1
    THEN [l.messages EXCEPT ![Len(l.messages)] = Turn("assistant", t, tcs, <<>>)]
    ELSE Append(l.messages, Turn("assistant", t, tcs, <<>>))

\* the conversation after a response with text t and tool calls tcs: the
\* adapter appends the assistant turn when there are tool calls
\* (providers.py:176, 278, 375, 482); Gemini's chat keeps every message sent
\* and every response
Answered(l, t, tcs) ==
    IF l.adapter = "gemini"
    THEN l.messages \o <<l.current_prompt, Turn("model", t, tcs, <<>>)>>
    ELSE IF tcs = <<>> THEN l.messages
    ELSE Append(l.messages, Turn("assistant", t, tcs, <<>>))

\* providers.py:162-190, 235-292, 353-378, 426-485, 588-602, 661-677: one model
\* request and what the loop does with the response up to its first tool
ModelRequest ==
    /\ loop.pc = "request"
    /\ LET l0 == [loop EXCEPT !.requests = @ + 1, !.sent = Transmitted(loop)] IN
       \/ \* the request raises (network, vendor error)
          loop' = LoopRaises(l0, "API error")
       \/ \* a response without tool calls: its text is the result
          \E t \in ResponseTexts(loop.iteration) :
            loop' = LoopReturns(
                      YieldText([l0 EXCEPT !.text = t, !.tool_calls = <<>>,
                                           !.messages = Answered(loop, t, <<>>)], t),
                      t)
       \/ \* a response with tool calls
          \E t \in ResponseTexts(loop.iteration) :
          \E tcs \in ToolCallLists(loop.iteration, loop.adapter, loop.mode,
                                   MaxOdd - loop.odd - Silent(t)) :
            loop' = YieldText([l0 EXCEPT !.text = t, !.tool_calls = tcs,
                                         !.next_call = 1, !.tool_results = <<>>,
                                         !.odd = @ + Silent(t) + Len(tcs) - 1 + Faults(tcs),
                                         !.messages = Answered(loop, t, tcs),
                                         !.pc = "tools"], t)
    /\ UNCHANGED <<coordVars, _global_registry>>

\* json.loads of a call's arguments where the adapter parses them:
\* providers.py:195, 297 (OpenAI: the exception is not handled),
\* providers.py:457-460 (Anthropic, streaming: handled, the input is {})
ParseArguments(adapter, mode, arguments) ==
    IF arguments = "{}" \/ ~ParsesArguments(adapter, mode) THEN Returned("{}")
    ELSE IF adapter = "openai" THEN Raised("JSONDecodeError")
    ELSE Returned("{}")

\* the turn or result block an adapter makes of a tool's result:
\* providers.py:201-205, 310-314 (OpenAI: a tool turn with the call's id),
\* 387-391, 503-507 (Anthropic: a tool_result block with the call's id),
\* 615-622, 697-704 (Gemini: a function response with the call's name)
Outcome(adapter, call, text) ==
    ToolResult(IF adapter = "gemini" THEN call.name ELSE call.id, text)

\* providers.py:193-205, 295-314, 382-391, 489-507, 606-622, 681-704: the
\* next tool call of the response is executed
ExecuteNext ==
    /\ loop.pc = "tools"
    /\ loop.next_call <= Len(loop.tool_calls)
    /\ LET call == loop.tool_calls[loop.next_call]
           args == ParseArguments(loop.adapter, loop.mode, call.arguments)
       IN
       IF args.raised
       THEN loop' = LoopRaises(loop, args.value)
       ELSE \E behaviour \in ToolBehaviours :
              /\ behaviour.raised => loop.odd < MaxOdd
              /\ LET out == execute_tool(call.name, behaviour)
                     l1 == Yield(Yield(loop, "Executing tool: " \o call.name),
                                 "Arguments: " \o args.value)
                     l2 == [l1 EXCEPT
                              !.executed = @ + 1,
                              !.odd = IF behaviour.raised THEN @ + 1 ELSE @,
                              !.execs = Append(@, [round |-> loop.requests,
                                                   call |-> call,
                                                   behaviour |-> behaviour,
                                                   out |-> out,
                                                   yielded |-> Len(l1.chunks),
                                                   seen |-> Len(l1.delivered)])]
                 IN
                 IF out.raised
                 THEN loop' = LoopRaises(l2, out.value)
                 ELSE loop' =
                        [Yield(l2, "Result: " \o out.value) EXCEPT
                           !.next_call = @ + 1,
                           !.messages =
                              IF loop.adapter = "openai"
                              THEN Append(@, Turn("tool", "", <<>>,
                                            <<Outcome(loop.adapter, call, out.value)>>))
                              ELSE @,
                           !.tool_results =
                              IF loop.adapter = "openai" THEN @
                              ELSE Append(@, Outcome(loop.adapter, call, out.value))]
    /\ UNCHANGED <<coordVars, _global_registry>>

\* providers.py:207-208, 316-319, 393-400, 509-518, 624-628, 706-712: every
\* tool call of the response has been executed
EndOfRound ==
    /\ loop.pc = "tools"
    /\ loop.next_call > Len(loop.tool_calls)
    /\ LET results == Turn("user", "", <<>>, loop.tool_results)
           l1 == [loop EXCEPT
                    !.messages = IF loop.adapter = "anthropic"
                                 THEN Append(@, results) ELSE @,
                    !.current_prompt = IF loop.adapter = "gemini"
                                       THEN results ELSE @]
       IN
       IF loop.iteration < MaxIterations - 1
       THEN loop' = [l1 EXCEPT !.iteration = @ + 1, !.pc = "request"]
       ELSE IF loop.mode = "ask_stream"
       THEN loop' = LoopReturns(Yield(l1, Sentinel), "")
       ELSE loop' = LoopReturns(l1, loop.text)
    /\ UNCHANGED <<coordVars, _global_registry>>

InitLoop ==
    /\ _global_registry = get_tool_registry(NoRegistry)
    /\ providers = <<>>
    /\ prompt \in Prompts
    /\ order = NoOrder
    /\ strategy = "none"
    /\ initial_planner = "none"
    /\ cache = NoCache
    /\ cache_file = NoFile
    /\ pc = "off"
    /\ calls = <<>>
    /\ tasks = NoTasks
    /\ locals = NoLocals
    /\ frames = <<>>
    /\ result = NoResult
    /\ error = NoError
    /\ \E adapter \in Adapters, mode \in Modes : loop = LoopStart(adapter, mode, prompt)

NextLoop ==
    \/ ModelRequest
    \/ ExecuteNext
    \/ EndOfRound

SpecLoop == InitLoop /\ [][NextLoop]_vars

\* a second ask / ask_stream is called on the same provider object while
\* the first run waits at one of its awaits (the model request, a tool):
\* providers.py:156, 223, 347, 415, 582, 655 give the new run a list (a chat)
\* of its own.  The first run stays suspended in tasks; the departures from
\* the plain round are counted over both runs.
OtherPrompt == "What is 3+3?"
\* the second call arrives in one of the first MaxArrival rounds of the first
MaxArrival == 1
SecondAsk ==
    /\ loop.pc \in {"request", "tools"}
    /\ loop.iteration < MaxArrival
    /\ tasks = NoTasks
    /\ tasks' = <<loop>>
    /\ \E mode \in Modes :
         loop' = [LoopStart(loop.adapter, mode, OtherPrompt) EXCEPT !.odd = loop.odd]
    /\ UNCHANGED <<_global_registry, providers, prompt, order, strategy, initial_planner, cache, cache_file,
                   pc, calls, locals, frames, result, error>>

NextTwoAsks ==
    \/ NextLoop
    \/ SecondAsk

SpecTwoAsks == InitLoop /\ [][NextTwoAsks]_vars

---------------------------------------------------------------------------
(* The registry under concurrent branches: the providers are constructed,  *)
(* each taking the registry (providers.py:35), and the branches of a       *)
(* multi-agent strategy run their providers' tool loops, which call        *)
(* self.tool_registry.execute_tool (providers.py:198, 383, 612).           *)

\* the classes whose ask runs a tool loop, and the loop ask(prompt) begins:
\* providers.py:143-208, 334-400, 560-628; OpenAICodexProvider and
\* GeminiADKProvider hand a prefixed prompt to super().ask
\* (providers.py:1047-1049, 1104-1106)
HasToolLoop(name) ==
    Get(locals.instances, name).class
      \in {"OpenAIProvider", "OpenAICodexProvider", "AnthropicProvider",
           "GeminiProvider", "GeminiADKProvider"}

BranchLoop(name) ==
    LET class == Get(locals.instances, name).class IN
    LoopStart(IF class \in {"OpenAIProvider", "OpenAICodexProvider"} THEN "openai"
              ELSE IF class = "AnthropicProvider" THEN "anthropic"
              ELSE "gemini",
              "ask",
              IF class = "OpenAICodexProvider" THEN "[CODE/AGENT TASK] " \o prompt
              ELSE IF class = "GeminiADKProvider" THEN "[AGENT/CODE TASK] " \o prompt
              ELSE prompt)

\* orchestrator.py:245: the first branch reaches its provider.ask
BranchStart ==
    /\ pc = "constructed"
    /\ loop = NoLoop
    /\ \E name \in Range(providers) :
         /\ HasToolLoop(name)
         /\ loop' = BranchLoop(name)
    /\ UNCHANGED <<coordVars, _global_registry>>

\* orchestrator.py:251-256: while that branch waits at an await of its loop,
\* another branch of the gather reaches its provider.ask
BranchOther ==
    /\ pc = "constructed"
    /\ loop.pc \in {"request", "tools"}
    /\ loop.iteration < MaxArrival
    /\ tasks = NoTasks
    /\ tasks' = <<loop>>
    /\ \E name \in Range(providers) :
         /\ HasToolLoop(name)
         /\ loop' = [BranchLoop(name) EXCEPT !.odd = loop.odd]
    /\ UNCHANGED <<_global_registry, providers, prompt, order, strategy,
                   initial_planner, cache, cache_file, pc, calls, locals, frames, result,
                   error>>

\* the event loop resumes the waiting branch at its await and the running
\* one waits at its own (both in one of their first MaxArrival rounds)
BranchSwitch ==
    /\ tasks # NoTasks
    /\ loop.pc \in {"request", "tools"}
    /\ loop.iteration < MaxArrival
    /\ tasks[1].iteration < MaxArrival
    /\ loop' = [tasks[1] EXCEPT !.odd = loop.odd]
    /\ tasks' = <<loop>>
    /\ UNCHANGED <<_global_registry, providers, prompt, order, strategy,
                   initial_planner, cache, cache_file, pc, calls, locals, frames, result,
                   error>>

\* two configured providers, each with or without a key of its own
RegistryConfigs ==
    {c \in Configs : /\ Len(c) = 2
                     /\ c[1][1] = "openai"
                     /\ c[2][1] = "anthropic"
                     /\ \A i \in 1..2 : c[i][2].enabled /\ c[i][2].model = ""}

\* nothing set (the specialized classes, keys from the configuration) or the
\* switch set to "false" (the general classes, keys from the environment)
RegistryEnvirons ==
    {e \in Environs :
       e = <<>> \/ EnvGet(e, "USE_SPECIALIZED_PROVIDERS", "") = "false"}

InitRegistry ==
    /\ _global_registry = NoRegistry
    /\ providers = <<>>
    /\ prompt \in Prompts
    /\ order = NoOrder
    /\ strategy = "none"
    /\ initial_planner = "none"
    /\ cache = NoCache
    /\ cache_file = NoFile
    /\ pc = "init"
    /\ calls = <<>>
    /\ tasks = NoTasks
    /\ \E config \in RegistryConfigs, environ \in RegistryEnvirons :
         locals = [proc |-> "__init__", config |-> config, environ |-> environ,
                   constructed_in |-> environ, claude_cli |-> TRUE, i |-> 1,
                   instances |-> <<>>, warnings |-> <<>>,
                   asked |-> <<>>, tool_registry |-> <<>>]
    /\ frames = <<>>
    /\ result = NoResult
    /\ error = NoError
    /\ loop = NoLoop

NextRegistry ==
    \/ CreateNext
    \/ Created
    \/ BranchStart
    \/ BranchOther
    \/ BranchSwitch
    \/ ModelRequest
    \/ ExecuteNext
    \/ EndOfRound

SpecRegistry == InitRegistry /\ [][NextRegistry]_vars

---------------------------------------------------------------------------
(* Claims about the tool-calling loop and the registry, under SpecLoop *)

Terminated == loop.pc \in {"returned", "raised"}

\* the responses so far that carried tool calls
ToolRounds ==
    IF loop.pc = "off" THEN 0
    ELSE Cardinality({i \in 1..Len(loop.messages) : loop.messages[i].tool_calls # <<>>})

\* every tool outcome a list of turns carries
OutcomesIn(turns) ==
    UNION {Range(turns[i].results) : i \in 1..Len(turns)}

\* the model asked for tools in all MaxIterations rounds and each was executed
CeilingReached ==
    /\ loop.pc = "returned"
    /\ loop.requests = MaxIterations
    /\ loop.tool_calls # <<>>

\* C3, as claimed: one run issues at most 5 model requests; a run in which
\* every response carried tool calls ends after exactly 5 requests; a run whose
\* first response carries no tool call ends after exactly 1 request and
\* executes no tool.
C3_AsClaimed ==
    loop.pc # "off" =>
      /\ loop.requests <= MaxIterations
      /\ (Terminated /\ ToolRounds = loop.requests) => loop.requests = MaxIterations
      /\ (Terminated /\ loop.requests >= 1 /\ ToolRounds = 0) =>
            loop.requests = 1 /\ loop.executed = 0

\* C4, as claimed: when the blocking loop ends at the ceiling, ask returns the
\* last text followed by the max-iteration sentinel.
C4_AsClaimed ==
    (loop.pc # "off" /\ loop.mode = "ask" /\ Terminated
       /\ loop.requests = MaxIterations /\ ToolRounds = MaxIterations
       /\ loop.executed >= MaxIterations /\ loop.next_call > Len(loop.tool_calls))
    => /\ loop.pc = "returned"
       /\ loop.ret = loop.text \o Sentinel

FailedExec(e) == e.call.name \notin RegisteredTools \/ e.behaviour.raised
ErrorOutcome(e) == Outcome(loop.adapter, e.call, e.out.value)

\* C5: a tool call that fails while it is executed (the tool raises, or no
\* such tool is registered) never makes the loop raise: what leaves ask /
\* ask_stream is never the tool's exception; the failure becomes an outcome
\* whose text starts with "Error", held by the conversation (or by the results
\* collected for the round's turn), and every model request made after the
\* failing round transmits it.
C5_ToolFailureContained ==
    loop.pc # "off" =>
      /\ loop.pc = "raised" => loop.exc \in {"API error", "JSONDecodeError"}
      /\ \A i \in 1..Len(loop.execs) :
           LET e == loop.execs[i] IN
           FailedExec(e) =>
             /\ ~e.out.raised
             /\ StartsWith(e.out.value, "Error")
             /\ ErrorOutcome(e) \in OutcomesIn(loop.messages)
                                      \cup Range(loop.tool_results)
                                      \cup Range(loop.current_prompt.results)
             /\ loop.requests > e.round => ErrorOutcome(e) \in OutcomesIn(loop.sent)

\* C5 happens: a tool raised in round 1 and the model was asked again
C5_Witness ==
    /\ loop.pc = "tools"
    /\ loop.requests = 2
    /\ \E i \in 1..Len(loop.execs) :
         /\ loop.execs[i].behaviour.raised
         /\ loop.execs[i].call.name \in RegisteredTools
         /\ loop.execs[i].round = 1
         /\ ErrorOutcome(loop.execs[i]) \in OutcomesIn(loop.sent)

\* C6: execute_tool never raises and always returns text: for a name that is
\* not registered the text "Error: Tool '<name>' not found", for a tool that
\* raises a text starting with "Error executing tool", else the tool's text.
C6_ExecuteToolNeverRaises ==
    loop.pc # "off" =>
      \A i \in 1..Len(loop.execs) :
        LET e == loop.execs[i] IN
        /\ ~e.out.raised
        /\ e.call.name \notin RegisteredTools =>
             e.out.value = "Error: Tool '" \o e.call.name \o "' not found"
        /\ (e.call.name \in RegisteredTools /\ e.behaviour.raised) =>
             /\ StartsWith(e.out.value, "Error executing tool")
             /\ Contains(e.out.value, e.behaviour.value)
        /\ (e.call.name \in RegisteredTools /\ ~e.behaviour.raised) =>
             e.out.value = e.behaviour.value

\* C6 happens: one run executed an unregistered name and a tool that raised
C6_Witness ==
    /\ loop.pc # "off"
    /\ \E i, j \in 1..Len(loop.execs) :
         /\ loop.execs[i].call.name \notin RegisteredTools
         /\ loop.execs[j].call.name \in RegisteredTools
         /\ loop.execs[j].behaviour.raised
         /\ ~loop.execs[i].out.raised
         /\ ~loop.execs[j].out.raised


\* C24 as the specification states it: once a round of a run is over (the
\* next request is due or the run has ended), every tool call of every
\* response of the run has been executed exactly once, in the order the
\* responses and their calls came, nothing else has been executed, and the
\* outcome of each, under the call's id (Gemini: the call's name), is in the
\* conversation; every request after a round transmits that round's outcomes.
C24_AsClaimed ==
    (loop.pc \in {"request", "returned", "raised"}) =>
      LET turns == loop.messages
          execs == loop.execs
          Issued == {<<i, k>> \in (1..Len(turns)) \X (1..MaxCalls) :
                       k <= Len(turns[i].tool_calls)}
          ExecsOf(i, k) == {e \in 1..Len(execs) : execs[e].call = turns[i].tool_calls[k]}
          Before(a, b) == a[1] < b[1] \/ (a[1] = b[1] /\ a[2] < b[2])
      IN /\ \A c \in Issued : Cardinality(ExecsOf(c[1], c[2])) = 1
         /\ Len(execs) = Cardinality(Issued)
         /\ \A a, b \in Issued :
              Before(a, b) => \A e \in ExecsOf(a[1], a[2]), f \in ExecsOf(b[1], b[2]) : e < f
         /\ \A e \in 1..Len(execs) :
              /\ ~execs[e].out.raised
              /\ ErrorOutcome(execs[e]) \in OutcomesIn(loop.messages)
                                              \cup Range(loop.current_prompt.results)
              /\ loop.requests > execs[e].round
                   => ErrorOutcome(execs[e]) \in OutcomesIn(loop.sent)


\* C25: the conversation of a run only grows: every step of a run leaves the
\* turns it had in place and unchanged and appends at its end; its first turn
\* is the user prompt of the run; a turn with tool results comes after the
\* assistant turn with the tool calls or after another result turn.  A second
\* call on the same provider object starts with a conversation of its own,
\* that holds its own prompt and not the first run's, and while it runs the
\* suspended first run and its conversation stay as they were.
C25_ConversationPrivate ==
    [][loop'.pc # "off" =>
         LET IsPrefix(a, b) == Len(a) <= Len(b) /\ SubSeq(b, 1, Len(a)) = a
             conv == loop'.messages
             own == Turn("user", IF tasks' = <<>> THEN prompt ELSE OtherPrompt,
                         <<>>, <<>>)
         IN /\ tasks' = tasks => IsPrefix(loop.messages, conv)
            /\ tasks' # tasks =>
                 /\ tasks' = <<loop>>
                 /\ conv = IF loop'.adapter = "gemini" THEN <<>> ELSE <<own>>
            /\ conv # <<>> => conv[1] = own
            /\ \A i \in 1..Len(conv) :
                 conv[i].results # <<>> =>
                   /\ i > 1
                   /\ conv[i - 1].tool_calls # <<>> \/ conv[i - 1].results # <<>>
            /\ tasks' # <<>> =>
                 /\ \A i \in 1..Len(conv) : conv[i] # Turn("user", prompt, <<>>, <<>>)
                 /\ \A i \in 1..Len(tasks'[1].messages) : tasks'[1].messages[i] # own
      ]_vars

\* the second call came when the first run had its assistant turn with tool
\* calls, and ran through a round with tools to its end
C25_Witness ==
    /\ loop.pc = "returned"
    /\ tasks # <<>>
    /\ Len(tasks[1].messages) >= 2
    /\ tasks[1].pc = "tools"
    /\ Len(loop.messages) >= 3
    /\ loop.requests >= 2


\* C26 as the specification states it: in ask_stream, when a tool is
\* executed the consumer has got every chunk yielded so far, the last two
\* being the call's "Executing tool" and "Arguments" chunks and the text of
\* the round among the earlier ones; the chunk after them is the call's
\* "Result" chunk, which the consumer gets before any chunk of the next call
\* or of the next round.
C26_AsClaimed ==
    (loop.pc # "off" /\ loop.mode = "ask_stream") =>
      \A i \in 1..Len(loop.execs) :
        LET e == loop.execs[i] IN
        /\ e.seen = e.yielded
        /\ e.yielded >= 2
        /\ loop.chunks[e.yielded - 1] = "Executing tool: " \o e.call.name
        /\ StartsWith(loop.chunks[e.yielded], "Arguments: ")
        /\ \A c \in 1..Len(loop.chunks) :
             loop.chunks[c] = "text of round " \o ToString(e.round) => c < e.yielded - 1
        /\ Len(loop.chunks) > e.yielded
             => loop.chunks[e.yielded + 1] = "Result: " \o e.out.value
        /\ i < Len(loop.execs) => loop.execs[i + 1].yielded >= e.yielded + 3
        /\ Len(loop.delivered) <= Len(loop.chunks)
        /\ SubSeq(loop.chunks, 1, Len(loop.delivered)) = loop.delivered


\* C27 as the specification states it: a stream of ask_stream that has ended
\* holds the chunk "(Maximum tool iterations reached)" if and only if the
\* model's response carried tool calls in all 5 rounds; when it holds the
\* chunk, it holds it once and as its last chunk; a stream that ended with a
\* response without tool calls does not hold it.
C27_AsClaimed ==
    (loop.pc # "off" /\ loop.mode = "ask_stream" /\ Terminated) =>
      LET stream == loop.delivered
          At == {c \in 1..Len(stream) : stream[c] = Sentinel}
      IN /\ (At # {}) <=> (ToolRounds = MaxIterations)
         /\ At # {} => At = {Len(stream)}
         /\ (loop.pc = "returned" /\ loop.tool_calls = <<>>) => At = {}

---------------------------------------------------------------------------
(* ShellTool.execute, tools.py:79-110.  locals holds the command, the       *)
(* number of subprocesses spawned and the state of the subprocess; result  *)
(* is the text execute returns, error the exception that leaves it.        *)

\* tools.py:55-58
allowed_commands ==
    <<"curl", "wget", "date", "cal", "uptime", "whoami",
      "pwd", "ls", "cat", "echo", "which", "uname">>

\* tools.py:82, command.split()[0] if command.strip() else "" (mutant: the
\* token is cut to the first two characters)
BaseCmdTwoChars(command) ==
    LET n == Len(command)
        IsSpace(i) == SubSeq(command, i, i) \in {" ", "\t", "\n", "\r", "\f"}
        first == CHOOSE i \in 1..(n + 1) :
                   /\ i = n + 1 \/ ~IsSpace(i)
                   /\ \A k \in 1..(i - 1) : IsSpace(k)
    IN IF first > n THEN "" ELSE SubSeq(command, first, Min(first + 1, n))

base_cmd(command) ==
    LET n == Len(command)
        IsSpace(i) == SubSeq(command, i, i) \in {" ", "\t", "\n", "\r", "\f"}
        first == CHOOSE i \in 1..(n + 1) :
                   /\ i = n + 1 \/ ~IsSpace(i)
                   /\ \A k \in 1..(i - 1) : IsSpace(k)
        last == CHOOSE j \in first..(n + 1) :
                  /\ j = n + 1 \/ IsSpace(j)
                  /\ \A k \in first..(j - 1) : ~IsSpace(k)
    IN IF first > n THEN "" ELSE SubSeq(command, first, last - 1)

\* execute returns text
ShellReturn(text) ==
    /\ pc' = "returned"
    /\ result' = [kind |-> "str", value |-> text]

\* tools.py:82-93: the safety check, then asyncio.create_subprocess_shell,
\* which spawns the subprocess or raises (no shell, no memory)
ShellExecute ==
    /\ pc = "execute"
    /\ IF base_cmd(locals.command) \notin Range(allowed_commands)
       THEN /\ ShellReturn("Error: Command '" \o base_cmd(locals.command)
                           \o "' not allowed. Allowed commands: "
                           \o Join(", ", allowed_commands))
            /\ UNCHANGED locals
       ELSE \/ /\ pc' = "communicate"
               /\ locals' = [locals EXCEPT !.spawned = @ + 1, !.process = "running"]
               /\ UNCHANGED result
            \/ /\ ShellReturn("Error executing command: [Errno 12] Cannot allocate memory")
               /\ UNCHANGED locals
    /\ UNCHANGED <<_global_registry, providers, prompt, order, strategy,
                   initial_planner, cache, cache_file, calls, tasks, frames, error, loop>>

\* tools.py:95-107: wait_for(process.communicate(), timeout=10.0) returns the
\* output of the process that exited, or times out; the output is decoded
\* and stripped
ShellCommunicate ==
    /\ pc = "communicate"
    /\ \/ \* output is stdout.decode('utf-8').strip()
          \E output \in {"Thu Nov  5 2026", ""} :
            /\ locals' = [locals EXCEPT !.process = "exited"]
            /\ ShellReturn(IF output # "" THEN output
                           ELSE "(command executed successfully, no output)")
       \/ \* the output is not UTF-8: decode raises inside the try
          /\ locals' = [locals EXCEPT !.process = "exited"]
          /\ ShellReturn("Error executing command: 'utf-8' codec can't decode byte 0xff")
       \/ \E returncode \in {"1", "127"} :
            /\ locals' = [locals EXCEPT !.process = "exited"]
            /\ ShellReturn("Error (exit code " \o returncode \o "): "
                           \o "No such file or directory")
       \/ \* asyncio.TimeoutError: the process still runs
          /\ pc' = "timeout"
          /\ locals' = [locals EXCEPT !.timed_out = TRUE]
          /\ UNCHANGED result
    /\ UNCHANGED <<_global_registry, providers, prompt, order, strategy,
                   initial_planner, cache, cache_file, calls, tasks, frames, error, loop>>

\* tools.py:98-100: process.kill() and the timeout text
ShellKill ==
    /\ pc = "timeout"
    /\ locals' = [locals EXCEPT !.process = "killed"]
    /\ ShellReturn("Error: Command timed out after 10 seconds")
    /\ UNCHANGED <<_global_registry, providers, prompt, order, strategy,
                   initial_planner, cache, cache_file, calls, tasks, frames, error, loop>>

\* commands a model may pass: empty, blank, allowed with and without
\* arguments and leading blanks, an allowed word as prefix or in upper case,
\* a second command after an allowed one
ShellCommands ==
    {"", "   ", " \t\n", "date", "date +%Z", "  ls -la", "\tcat /etc/passwd",
     "curl https://example.com", "wget\thttps://example.com", "uname",
     "echo hi ; rm -rf /tmp/x", "pwd\n", "which python", "whoami",
     "rm -rf /", "sudo ls", "lsof", "LS", "ls;id", "python -c 1", "/bin/ls",
     "cal2", "echo$(id)"}

InitShell ==
    /\ _global_registry = get_tool_registry(NoRegistry)
    /\ providers = <<>>
    /\ prompt \in Prompts
    /\ order = NoOrder
    /\ strategy = "none"
    /\ initial_planner = "none"
    /\ cache = NoCache
    /\ cache_file = NoFile
    /\ pc = "execute"
    /\ calls = <<>>
    /\ tasks = NoTasks
    /\ \E command \in ShellCommands :
         locals = [proc |-> "execute", command |-> command, spawned |-> 0,
                   process |-> "none", timed_out |-> FALSE]
    /\ frames = <<>>
    /\ result = NoResult
    /\ error = NoError
    /\ loop = NoLoop

NextShell ==
    \/ ShellExecute
    \/ ShellCommunicate
    \/ ShellKill

SpecShell == InitShell /\ [][NextShell]_vars

\* C37: ShellTool.execute spawns at most one subprocess, and only for a
\* command whose first whitespace-separated token is one of curl, wget, date,
\* cal, uptime, whoami, pwd, ls, cat, echo, which, uname; for every other
\* command, the empty and the blank ones included, it spawns nothing and
\* returns a text "Error: Command '...' not allowed..."; a subprocess that
\* has not finished when the wait times out is killed and the text returned
\* is the timeout error, which is returned in no other case; no subprocess
\* is left running; execute always returns text and never raises.
C37_ShellAllowList ==
    locals.proc = "execute" =>
      LET command == locals.command
          n == Len(command)
          IsSpace(i) == SubSeq(command, i, i) \in {" ", "\t", "\n", "\r", "\f"}
          FirstTokenAllowed ==
            \E a \in {"curl", "wget", "date", "cal", "uptime", "whoami",
                      "pwd", "ls", "cat", "echo", "which", "uname"} :
            \E i \in 0..n :
              /\ \A k \in 1..i : IsSpace(k)
              /\ i + Len(a) <= n
              /\ SubSeq(command, i + 1, i + Len(a)) = a
              /\ i + Len(a) = n \/ IsSpace(i + Len(a) + 1)
      IN
      /\ pc # "raised"
      /\ error = NoError
      /\ locals.spawned <= 1
      /\ locals.spawned > 0 => FirstTokenAllowed
      /\ locals.spawned = 0 <=> locals.process = "none"
      /\ pc = "returned" =>
           /\ result.kind = "str"
           /\ locals.process # "running"
           /\ locals.timed_out <=> locals.process = "killed"
           /\ ~FirstTokenAllowed =>
                /\ locals.spawned = 0
                /\ StartsWith(result.value, "Error: Command '")
                /\ Contains(result.value, "' not allowed")
           /\ FirstTokenAllowed => ~Contains(result.value, "not allowed")
           /\ locals.process = "killed"
                <=> result.value = "Error: Command timed out after 10 seconds"

\* C37 happens: an allowed command given after leading blanks did not finish
\* in time and was killed
C37_Witness ==
    /\ locals.proc = "execute"
    /\ pc = "returned"
    /\ locals.command = "  ls -la"
    /\ locals.process = "killed"
    /\ result.value = "Error: Command timed out after 10 seconds"

\* C36: when a run ends at the ceiling (it returned after the model asked for
\* tools in its last response), exactly 5 model requests were made and tools
\* were executed in exactly the rounds 1..5; every tool call of the 5th
\* response was executed, in order, after the 5th request, and its outcome is
\* held by the conversation (Gemini: by the turn built for the next message);
\* the run being over, no request follows, and nothing transmitted to the
\* model carries an outcome of the 5th round (stated for the adapters whose
\* outcomes carry the call id).
C36_LastRoundTools ==
    CeilingReached =>
      LET last == SelectSeq(loop.execs, LAMBDA e : e.round = 5) IN
      /\ loop.requests = 5
      /\ {loop.execs[i].round : i \in 1..Len(loop.execs)} = 1..5
      /\ Len(last) = Len(loop.tool_calls)
      /\ \A k \in 1..Len(last) :
           LET outcome == Outcome(loop.adapter, last[k].call, last[k].out.value) IN
           /\ last[k].call = loop.tool_calls[k]
           /\ ~last[k].out.raised
           /\ outcome \in OutcomesIn(loop.messages)
                             \cup Range(loop.current_prompt.results)
           /\ loop.adapter # "gemini" =>
                /\ outcome \in OutcomesIn(loop.messages)
                /\ outcome \notin OutcomesIn(loop.sent)

\* C36 happens: a run of the OpenAI adapter ended at the ceiling with two tool
\* calls in its last response
C36_Witness ==
    /\ CeilingReached
    /\ loop.adapter = "openai"
    /\ Len(loop.tool_calls) = 2

\* C34: whatever tools the concurrent branches have executed and in whatever
\* order, the module's registry is either not yet created or the one registry
\* object created first, holding the four default tools under their names
\* with their schemas as registered; and every constructed provider instance
\* holds that same registry object.
C34_RegistryShared ==
    /\ _global_registry \in {NoRegistry, ToolRegistry(1)}
    /\ _global_registry # NoRegistry =>
         KeySet(_global_registry.tools) = RegisteredTools
    /\ locals.proc = "__init__" =>
         /\ Keys(locals.tool_registry) = providers
         /\ \A i \in 1..Len(providers) :
              /\ _global_registry # NoRegistry
              /\ Get(locals.tool_registry, providers[i]) = _global_registry.id
    /\ (loop # NoLoop /\ loop.executed > 0) => _global_registry = ToolRegistry(1)

\* C34 happens: two provider instances were constructed and two branches of
\* different adapters have each executed a tool
C34_Witness ==
    /\ Len(providers) = 2
    /\ tasks # NoTasks
    /\ loop # NoLoop
    /\ loop.executed >= 1
    /\ tasks[1].executed >= 1
    /\ loop.adapter # tasks[1].adapter

---------------------------------------------------------------------------
(* The history of a session: SessionCache.add_to_history and get_history  *)
(* (cache.py:223-254)                                                     *)

\* most entries appended in one run
MaxHistory == 3
\* largest limit handed to get_history
MaxLimit == 4

\* Python's history[start:] for a list and an integer start of either sign
SliceFrom(history, start) ==
    LET n == Len(history)
        first == IF start >= 0 THEN Min(start, n)
                 ELSE IF n + start > 0 THEN n + start ELSE 0
    IN SubSeq(history, first + 1, n)

\* cache.py:239-254, get_history(limit); limit is <<>> for None and <<n>> for
\* the integer n: "if limit:" is false for None and for 0
get_history(c, limit) ==
    IF limit # <<>> /\ limit[1] # 0
    THEN SliceFrom(c.history, -limit[1])
    ELSE c.history

HistoryPrompts == {"first question", "second question"}
HistoryLimits == {<<>>} \cup {<<n>> : n \in 0..MaxLimit}

\* one caller appends the answers of a question to the session's history
\* (cache.py:223-237): the entry goes to self.data and the file is rewritten
HistoryAdd ==
    /\ pc = "history"
    /\ Len(cache.history) < MaxHistory
    /\ \E p \in HistoryPrompts :
         LET responses == <<<<"openai", "answer to " \o p>>>> IN
         /\ cache' = add_to_history(cache, p, responses)
         /\ cache_file' = _save_cache(cache')
         /\ locals' = [locals EXCEPT
                         !.appended = Append(@, [prompt |-> p,
                                                 responses |-> responses])]
    /\ UNCHANGED <<_global_registry, providers, prompt, order, strategy,
                   initial_planner, pc, calls, tasks, frames, result, error,
                   loop>>

\* the caller reads the history (cache.py:239-254); the result keeps the limit
\* asked for and what had been appended until then
HistoryGet ==
    /\ pc = "history"
    /\ \E limit \in HistoryLimits :
         result' = [kind |-> "history", limit |-> limit,
                    appended |-> locals.appended,
                    value |-> get_history(cache, limit)]
    /\ UNCHANGED <<_global_registry, providers, prompt, order, strategy,
                   initial_planner, cache, cache_file, pc, calls, tasks,
                   locals, frames, error, loop>>

InitHistory ==
    /\ _global_registry = NoRegistry
    /\ providers = <<>>
    /\ prompt \in Prompts
    /\ order = NoOrder
    /\ strategy = "none"
    /\ initial_planner = "none"
    /\ cache_file = NoFile
    /\ cache = SessionCache(cache_file)
    /\ pc = "history"
    /\ calls = <<>>
    /\ tasks = NoTasks
    /\ locals = [proc |-> "history", appended |-> <<>>]
    /\ frames = <<>>
    /\ result = NoResult
    /\ error = NoError
    /\ loop = NoLoop

NextHistory ==
    \/ HistoryAdd
    \/ HistoryGet

SpecHistory == InitHistory /\ [][NextHistory]_vars

\* C38: the history holds the appended entries in append order; get_history()
\* returns all of them, and get_history(limit) with limit >= 0 returns at
\* most limit entries, the most recent ones in append order.
C38_AsClaimed ==
    /\ cache.history = locals.appended
    /\ result.kind = "history" =>
         LET all == result.appended
             n == Len(all)
         IN IF result.limit = <<>>
            THEN result.value = all
            ELSE LET limit == result.limit[1] IN
                 /\ Len(result.value) <= limit
                 /\ result.value = SubSeq(all, n - Min(limit, n) + 1, n)

---------------------------------------------------------------------------
(* Two requests on one session: each builds its own AiTril, and so its    *)
(* own SessionCache, over the same cache file (web.py:179-194,            *)
(* orchestrator.py:29-30, 141-149)                                        *)

\* the history entry a request appends (cache.py:232-236)
RequestEntry(r) == [prompt |-> r.prompt, responses |-> r.responses]

\* web.py:180, AiTril(config, session_name=session, use_cache=True): the
\* request's SessionCache reads the file (cache.py:159-188)
RequestCreate(i) ==
    /\ pc = "serving"
    /\ tasks[i].pc = "received"
    /\ tasks' = [tasks EXCEPT ![i].pc = "created",
                              ![i].cache = SessionCache(cache_file)]
    /\ UNCHANGED <<_global_registry, providers, prompt, order, strategy,
                   initial_planner, cache, cache_file, pc, calls, locals,
                   frames, result, error, loop>>

\* orchestrator.py:109-139, ask_tri awaits the strategy, which calls the
\* providers
RequestAsk(i) ==
    /\ pc = "serving"
    /\ tasks[i].pc = "created"
    /\ tasks' = [tasks EXCEPT ![i].pc = "asking"]
    /\ calls' = Append(calls, [agent |-> tasks[i].name, prompt |-> tasks[i].prompt])
    /\ UNCHANGED <<_global_registry, providers, prompt, order, strategy,
                   initial_planner, cache, cache_file, pc, locals, frames,
                   result, error, loop>>

\* orchestrator.py:141-149: the strategy has returned and ask_tri appends the
\* responses to the history of its own cache, which rewrites the file
\* (cache.py:223-237, 190-203); there is no await between the two
RequestReturn(i) ==
    /\ pc = "serving"
    /\ tasks[i].pc = "asking"
    /\ LET responses == <<<<"openai", "answer to " \o tasks[i].prompt>>>>
           c == SaveToCache(tasks[i].cache, tasks[i].prompt, responses)
       IN /\ tasks' = [tasks EXCEPT ![i].pc = "returned",
                                    ![i].responses = responses,
                                    ![i].cache = c]
          /\ cache_file' = _save_cache(c)
    /\ UNCHANGED <<_global_registry, providers, prompt, order, strategy,
                   initial_planner, cache, pc, calls, locals, frames, result,
                   error, loop>>

\* the file before the two requests: no history, or one earlier entry
RequestFiles ==
    {NoFile,
     << [prompt |-> "earlier question",
         responses |-> <<<<"openai", "earlier answer">>>>] >>}
RequestPrompts == {"first question", "second question"}

InitRequests ==
    /\ _global_registry = NoRegistry
    /\ providers = <<>>
    /\ prompt \in Prompts
    /\ order = NoOrder
    /\ strategy = "none"
    /\ initial_planner = "none"
    /\ cache = NoCache
    /\ cache_file \in RequestFiles
    /\ pc = "serving"
    /\ calls = <<>>
    /\ \E p1 \in RequestPrompts, p2 \in RequestPrompts :
         tasks = << [name |-> "connection 1", pc |-> "received", prompt |-> p1,
                     responses |-> <<>>, cache |-> NoCache],
                    [name |-> "connection 2", pc |-> "received", prompt |-> p2,
                     responses |-> <<>>, cache |-> NoCache] >>
    /\ locals = [proc |-> "requests"]
    /\ frames = <<>>
    /\ result = NoResult
    /\ error = NoError
    /\ loop = NoLoop

NextRequests ==
    \/ \E i \in 1..2 : RequestCreate(i)
    \/ \E i \in 1..2 : RequestAsk(i)
    \/ \E i \in 1..2 : RequestReturn(i)

SpecRequests == InitRequests /\ [][NextRequests]_vars

\* C39: when two requests, each with its own SessionCache over the same file
\* and session, have both run their strategy and appended to the history, the
\* history in the file contains the entries of both, whatever the
\* interleaving of the loads, the provider calls and the saves.
C39_AsClaimed ==
    (locals.proc = "requests" /\ \A i \in 1..2 : tasks[i].pc = "returned") =>
      \A i \in 1..2 :
        \E k \in 1..Len(cache_file) : cache_file[k] = RequestEntry(tasks[i])

---------------------------------------------------------------------------
(* The web layer's parallel streaming mode: handle_tri and                *)
(* stream_provider_response (web.py:229-355)                              *)

\* an event with an "agent" key; text is its "chunk", "response" or "error"
AgentEvent(type, agent, text) == [type |-> type, agent |-> agent, text |-> text]

\* web.py:334
error_message(provider, e) == "Error from " \o provider \o ": " \o e

\* web.py:70-72, manager.send_event for an event of task k: the event is
\* sent, or websocket.send_json raises because the client is gone; next is
\* where the task goes on after the send. A send that raises inside the try
\* block is caught at web.py:332, the send at line 335 raises as well, and
\* the exception leaves the coroutine, as does one raised by the send at
\* line 306
SendAgentEvent(k, event, next) ==
    IF locals.websocket.open
    THEN [tasks[k] EXCEPT !.events = Append(@, event), !.pc = next]
    ELSE [tasks[k] EXCEPT !.pc = "raised"]

\* web.py:305-310
StreamStart(k) ==
    /\ tasks[k].pc = "created"
    /\ tasks' = [tasks EXCEPT ![k] =
                   SendAgentEvent(k, AgentEvent("agent_started", tasks[k].agent, ""),
                                  "streaming")]
    /\ UNCHANGED <<_global_registry, providers, prompt, order, strategy,
                   initial_planner, cache, cache_file, pc, calls, locals,
                   frames, result, error, loop>>

\* web.py:315-322: the stream yields a chunk
StreamChunk(k) ==
    /\ tasks[k].pc = "streaming"
    /\ tasks[k].chunks < MaxChunks
    /\ LET chunk == "chunk of " \o tasks[k].agent \o ". "
           t == SendAgentEvent(k, AgentEvent("agent_chunk", tasks[k].agent, chunk),
                               "streaming")
       IN tasks' = [tasks EXCEPT ![k] =
                      [t EXCEPT !.chunks = @ + 1,
                                !.full_response = @ \o chunk]]
    /\ UNCHANGED <<_global_registry, providers, prompt, order, strategy,
                   initial_planner, cache, cache_file, pc, calls, locals,
                   frames, result, error, loop>>

\* web.py:324-331: the stream is exhausted
StreamEnd(k) ==
    /\ tasks[k].pc = "streaming"
    /\ tasks' = [tasks EXCEPT ![k] =
                   SendAgentEvent(k, AgentEvent("agent_completed", tasks[k].agent,
                                                tasks[k].full_response),
                                  "done")]
    /\ UNCHANGED <<_global_registry, providers, prompt, order, strategy,
                   initial_planner, cache, cache_file, pc, calls, locals,
                   frames, result, error, loop>>

\* web.py:332-340: the stream raises, at its start or after some chunks
StreamRaise(k) ==
    /\ tasks[k].pc = "streaming"
    /\ LET msg == error_message(tasks[k].agent, ErrorText(tasks[k].agent))
           t == SendAgentEvent(k, AgentEvent("agent_error", tasks[k].agent, msg),
                               "error_sent")
       IN tasks' = [tasks EXCEPT ![k] =
                      [t EXCEPT !.failed = TRUE, !.error_message = msg]]
    /\ UNCHANGED <<_global_registry, providers, prompt, order, strategy,
                   initial_planner, cache, cache_file, pc, calls, locals,
                   frames, result, error, loop>>

\* web.py:341-347; the chunk starts with a warning sign
StreamErrorChunk(k) ==
    /\ tasks[k].pc = "error_sent"
    /\ tasks' = [tasks EXCEPT ![k] =
                   SendAgentEvent(k, AgentEvent("agent_chunk", tasks[k].agent,
                                                "<warning sign> "
                                                  \o tasks[k].error_message),
                                  "chunk_sent")]
    /\ UNCHANGED <<_global_registry, providers, prompt, order, strategy,
                   initial_planner, cache, cache_file, pc, calls, locals,
                   frames, result, error, loop>>

\* web.py:348-355 (mutant: the coroutine returns without the event)
StreamErrorNotCompleted(k) ==
    /\ tasks[k].pc = "chunk_sent"
    /\ tasks' = [tasks EXCEPT ![k].pc = "done"]
    /\ UNCHANGED <<_global_registry, providers, prompt, order, strategy,
                   initial_planner, cache, cache_file, pc, calls, locals,
                   frames, result, error, loop>>

StreamErrorCompleted(k) ==
    /\ tasks[k].pc = "chunk_sent"
    /\ tasks' = [tasks EXCEPT ![k] =
                   SendAgentEvent(k, AgentEvent("agent_completed", tasks[k].agent,
                                                tasks[k].error_message),
                                  "done")]
    /\ UNCHANGED <<_global_registry, providers, prompt, order, strategy,
                   initial_planner, cache, cache_file, pc, calls, locals,
                   frames, result, error, loop>>

\* web.py:229-240, 278-287: handle_tri sends trilam_started and, the planner
\* being "none" or no enabled provider, creates one task per provider and
\* awaits their gather
HandleTri ==
    /\ pc = "handle_tri"
    /\ ~(initial_planner # "none" /\ initial_planner \in Range(providers))
    /\ IF locals.websocket.open
       THEN /\ locals' = [locals EXCEPT !.websocket.sent = Append(@, "trilam_started")]
            /\ tasks' = [k \in 1..Len(providers) |->
                           [agent |-> providers[k], pc |-> "created", chunks |-> 0,
                            full_response |-> "", failed |-> FALSE,
                            error_message |-> "", events |-> <<>>]]
            /\ pc' = "gather"
            /\ error' = error
       ELSE /\ pc' = "raised"
            /\ error' = "send_json raised"
            /\ UNCHANGED <<locals, tasks>>
    /\ UNCHANGED <<_global_registry, providers, prompt, order, strategy,
                   initial_planner, cache, cache_file, calls, frames, result,
                   loop>>

\* web.py:287-296: every task has returned, and trilam_completed is sent
GatherReturn ==
    /\ pc = "gather"
    /\ \A k \in 1..Len(tasks) : tasks[k].pc = "done"
    /\ IF locals.websocket.open
       THEN /\ locals' = [locals EXCEPT !.websocket.sent = Append(@, "trilam_completed")]
            /\ pc' = "returned"
            /\ error' = error
       ELSE /\ pc' = "raised"
            /\ error' = "send_json raised"
            /\ locals' = locals
    /\ UNCHANGED <<_global_registry, providers, prompt, order, strategy,
                   initial_planner, cache, cache_file, calls, tasks, frames,
                   result, loop>>

\* web.py:287: a task has raised; asyncio.gather raises its exception in
\* handle_tri at once and lets the other tasks run on
GatherRaise ==
    /\ pc = "gather"
    /\ \E k \in 1..Len(tasks) : tasks[k].pc = "raised"
    /\ pc' = "raised"
    /\ error' = "send_json raised"
    /\ UNCHANGED <<_global_registry, providers, prompt, order, strategy,
                   initial_planner, cache, cache_file, calls, tasks, locals,
                   frames, result, loop>>

\* the client goes away (web.py:196-197): from then on send_json raises
Disconnect ==
    /\ pc \in {"handle_tri", "gather"}
    /\ locals.websocket.open
    /\ locals' = [locals EXCEPT !.websocket.open = FALSE]
    /\ UNCHANGED <<_global_registry, providers, prompt, order, strategy,
                   initial_planner, cache, cache_file, pc, calls, tasks,
                   frames, result, error, loop>>

InitWeb ==
    /\ _global_registry = get_tool_registry(NoRegistry)
    /\ providers \in Enabled
    /\ prompt \in Prompts
    /\ order = NoOrder
    /\ strategy = "parallel"
    /\ initial_planner \in {"none", "nobody"}
    /\ cache = NoCache
    /\ cache_file = NoFile
    /\ pc = "handle_tri"
    /\ calls = <<>>
    /\ tasks = NoTasks
    /\ locals = [proc |-> "handle_tri", websocket |-> [open |-> TRUE, sent |-> <<>>]]
    /\ frames = <<>>
    /\ result = NoResult
    /\ error = NoError
    /\ loop = NoLoop

NextWeb ==
    \/ HandleTri
    \/ \E k \in 1..Len(tasks) : StreamStart(k)
    \/ \E k \in 1..Len(tasks) : StreamChunk(k)
    \/ \E k \in 1..Len(tasks) : StreamEnd(k)
    \/ \E k \in 1..Len(tasks) : StreamRaise(k)
    \/ \E k \in 1..Len(tasks) : StreamErrorChunk(k)
    \/ \E k \in 1..Len(tasks) : StreamErrorCompleted(k)
    \/ GatherReturn
    \/ GatherRaise
    \/ Disconnect

SpecWeb == InitWeb /\ [][NextWeb]_vars

\* C40: in the parallel streaming mode every enabled agent has a task, and
\* the events sent for an agent are agent_started, then agent_chunk events,
\* then one agent_completed, which is sent exactly when the task returns;
\* when the agent's stream raises, after any number of chunks, one
\* agent_error and one chunk with the error message come between the chunks
\* and agent_completed, whose response is the error message; while the
\* client is connected no task raises and every task that has not returned
\* can take its next step, whatever has happened to the other agents; and
\* trilam_completed is sent only when agent_completed has been sent for every
\* agent.
C40_StreamEvents ==
    (locals.proc = "handle_tri" /\ pc # "handle_tri" /\ tasks # NoTasks) =>
      /\ Len(tasks) = Len(providers)
      /\ \A k \in 1..Len(tasks) :
           LET t == tasks[k]
               ev == t.events
               n == Len(ev)
               completed == {i \in 1..n : ev[i].type = "agent_completed"}
               errors == {i \in 1..n : ev[i].type = "agent_error"}
               chunks == {i \in 1..n : ev[i].type = "agent_chunk"}
           IN /\ t.agent = providers[k]
              /\ \A i \in 1..n : ev[i].agent = t.agent
              /\ \A i \in 1..n : ev[i].type = "agent_started" <=> i = 1
              /\ completed \subseteq {n}
              /\ completed # {} <=> t.pc = "done"
              /\ completed \cup errors \cup chunks = 2..n
              /\ Cardinality(errors) <= 1
              /\ errors # {} => t.failed
              /\ (t.failed /\ t.pc # "raised") => errors # {}
              /\ \A i \in errors :
                   /\ ev[i].text = error_message(t.agent, ErrorText(t.agent))
                   /\ n <= i + 2
                   /\ i + 1 <= n => /\ ev[i + 1].type = "agent_chunk"
                                    /\ ev[i + 1].text = "<warning sign> " \o ev[i].text
                   /\ i + 2 <= n => /\ ev[i + 2].type = "agent_completed"
                                    /\ ev[i + 2].text = ev[i].text
              /\ (t.pc = "done" /\ ~t.failed) =>
                   /\ Cardinality(chunks) = t.chunks
                   /\ ev[n].text = t.full_response
              /\ locals.websocket.open =>
                   /\ t.pc # "raised"
                   /\ t.pc # "done" =>
                        \/ ENABLED StreamStart(k)
                        \/ ENABLED StreamEnd(k)
                        \/ ENABLED StreamErrorChunk(k)
                        \/ ENABLED StreamErrorCompleted(k)
      /\ (\E i \in 1..Len(locals.websocket.sent) :
             locals.websocket.sent[i] = "trilam_completed") =>
           /\ locals.websocket.sent = <<"trilam_started", "trilam_completed">>
           /\ \A k \in 1..Len(tasks) :
                tasks[k].events[Len(tasks[k].events)].type = "agent_completed"

\* handle_tri has returned: one agent's stream raised after a chunk, another
\* agent's stream ended normally, and both have their agent_completed
C40_Witness ==
    /\ locals.proc = "handle_tri"
    /\ pc = "returned"
    /\ locals.websocket.sent = <<"trilam_started", "trilam_completed">>
    /\ \E k, j \in 1..Len(tasks) :
         /\ tasks[k].failed
         /\ tasks[k].chunks >= 1
         /\ Len(tasks[k].events) = tasks[k].chunks + 4
         /\ tasks[k].events[Len(tasks[k].events)].type = "agent_completed"
         /\ ~tasks[j].failed
         /\ tasks[j].chunks >= 1
         /\ tasks[j].events[Len(tasks[j].events)].type = "agent_completed"

====
